---- MODULE Spec2Model ----
(***************************************************************************)
(* OlegBot: the sliding-window message store, the decision engine and the  *)
(* webhook pipeline that feeds them.                                        *)
(*                                                                         *)
(* Time is in seconds.  Ratios and probabilities are exact rationals: a    *)
(* configured ratio r is kept as the integer 100*r, a computed ratio as a  *)
(* numerator and a denominator.  A text is the sequence of its             *)
(* whitespace-separated tokens; None and "" (both falsy, and the code only *)
(* ever tests a text's truth value) are the empty sequence.  A missing     *)
(* reply_to_message_id (None) is 0, which the code treats alike.           *)
(***************************************************************************)
EXTENDS Integers, Sequences, FiniteSets, TLC

(***************************************************************************)
(* Bounds of the model.                                                    *)
(***************************************************************************)
MaxMessages == 3      \* inbound updates delivered in one run
MaxTicks == 1         \* clock advances in one run
NumHandlers == 2      \* webhook invocations that may be in flight at once
NumChats == 2
NumUsers == 2
WindowSizeBound == 2  \* window_size given to SlidingWindowStore
MaxChatsBound == 1    \* max_chats given to SlidingWindowStore
MaxFailures == 1      \* calls to Telegram or to the backend that fail, and cancellations

(***************************************************************************)
(* Program constants.                                                      *)
(***************************************************************************)
RESET_INTERVAL == 3600          \* DecisionEngine._reset_interval
RECENT_BOT_SECONDS == 3600      \* has_recent_bot_message(chat_id, seconds=3600)
ACTIVE_WINDOW_SECONDS == 300    \* timedelta(minutes=5) in _calculate_topic_heat
CLEANUP_INTERVAL_SECONDS == 86400   \* cleanup_interval_hours=24
CLEANUP_MODULUS == 100          \* len(self._chat_windows) % 100 == 0
CONTEXT_LIMIT == 20             \* get_messages(chat_id, limit=20)
PACING_LIMIT == 50              \* get_messages(chat_id, limit=50)
PIPELINE_LIMIT == 10            \* get_messages(message.chat_id, limit=10)
DEFAULT_GAP_MIN_SECONDS == 20
DEFAULT_REPLY_TARGET_RATIO == 10      \* 0.10
DEFAULT_REACTION_PROBABILITY == 30    \* 0.3
DEFAULT_TOPIC_HEAT_THRESHOLD == 60    \* 0.6
MAX_PARTICIPATION == 10         \* min(remaining_quota * 2, 0.1)
INF == 1000000000               \* float("inf")

Chats == 1..NumChats
Users == 1..NumUsers
Handlers == 1..NumHandlers
ADMIN_USER_IDS == {1}

Min(a, b) == IF a <= b THEN a ELSE b

(***************************************************************************)
(* StoredMessage                                                            *)
(***************************************************************************)
StoredMessage(id, chat, user, text, ts, isbot, reply) ==
    [message_id |-> id, chat_id |-> chat, user_id |-> user, text |-> text,
     timestamp |-> ts, is_bot_message |-> isbot, reply_to_message_id |-> reply]

(***************************************************************************)
(* SlidingWindowStore.  _chat_windows is an OrderedDict: a sequence of     *)
(* entries [chat_id, messages] in its key order (first = least recently    *)
(* used).  _chat_last_activity is a dict: a function on its keys.  A store *)
(* value S is the record of the two.                                       *)
(***************************************************************************)
HasChat(cw, c) == \E i \in 1..Len(cw) : cw[i].chat_id = c

IndexOf(cw, c) == CHOOSE i \in 1..Len(cw) : cw[i].chat_id = c

WindowOf(cw, c) == IF HasChat(cw, c) THEN cw[IndexOf(cw, c)].messages ELSE <<>>

ChatKeys(cw) == {cw[i].chat_id : i \in 1..Len(cw)}

RemoveKey(cw, c) == SelectSeq(cw, LAMBDA e : e.chat_id # c)

move_to_end(cw, c) == Append(RemoveKey(cw, c), cw[IndexOf(cw, c)])

DictSet(d, k, v) == [x \in (DOMAIN d) \cup {k} |-> IF x = k THEN v ELSE d[x]]

\* A pop that removes nothing.
DictPop_keep(d, k) == d

DictPop(d, k) == [x \in (DOMAIN d) \ {k} |-> d[x]]

\* A bounded append that drops the new message when the window is full.
deque_append_keep_old(w, m, size) ==
    IF Len(w) >= size THEN w ELSE Append(w, m)

\* An append that never drops a message.
deque_append_unbounded(w, m, size) == Append(w, m)

\* deque(maxlen=window_size).append
deque_append(w, m, size) ==
    IF size = 0 THEN <<>>
    ELSE IF Len(w) >= size THEN Append(Tail(w), m) ELSE Append(w, m)

clear_chat(S, c) ==
    IF HasChat(S.chat_windows, c)
    THEN [S EXCEPT !.chat_windows = RemoveKey(S.chat_windows, c),
                   !.chat_last_activity = DictPop(S.chat_last_activity, c)]
    ELSE S

\* An eviction that takes the most recently used chat.
evict_most_recently_used(S) ==
    IF S.chat_windows = <<>> THEN S
    ELSE clear_chat(S, S.chat_windows[Len(S.chat_windows)].chat_id)

evict_least_recently_used(S) ==
    IF S.chat_windows = <<>> THEN S
    ELSE clear_chat(S, S.chat_windows[1].chat_id)

\* A cleanup that also takes the chats idle for exactly cleanup_interval.
cleanup_inactive_chats_eager(S, t) ==
    LET inactive == {c \in DOMAIN S.chat_last_activity :
                        t - S.chat_last_activity[c] >= S.cleanup_interval}
        gone == inactive \cap ChatKeys(S.chat_windows)
    IN [S EXCEPT !.chat_windows = SelectSeq(S.chat_windows, LAMBDA e : e.chat_id \notin gone),
                 !.chat_last_activity = [x \in (DOMAIN S.chat_last_activity) \ gone |->
                                            S.chat_last_activity[x]]]

cleanup_inactive_chats(S, t) ==
    LET inactive == {c \in DOMAIN S.chat_last_activity :
                        t - S.chat_last_activity[c] > S.cleanup_interval}
        gone == inactive \cap ChatKeys(S.chat_windows)
    IN [S EXCEPT !.chat_windows = SelectSeq(S.chat_windows, LAMBDA e : e.chat_id \notin gone),
                 !.chat_last_activity = [x \in (DOMAIN S.chat_last_activity) \ gone |->
                                            S.chat_last_activity[x]]]

add_message(S, m, t) ==
    LET Cleaned(S3) ==
            IF Len(S3.chat_windows) % CLEANUP_MODULUS = 0
            THEN cleanup_inactive_chats(S3, t) ELSE S3
        Appended(S2, moved) ==
            Cleaned([S2 EXCEPT !.chat_windows =
                        [moved EXCEPT ![Len(moved)].messages =
                            deque_append(moved[Len(moved)].messages, m, S.window_size)]])
        Moved(S2) == Appended(S2, move_to_end(S2.chat_windows, m.chat_id))
        WithWindow(Se) ==
            [Se EXCEPT !.chat_windows =
                Append(Se.chat_windows, [chat_id |-> m.chat_id, messages |-> <<>>])]
        Created(S1) ==
            Moved(IF HasChat(S1.chat_windows, m.chat_id) THEN S1
                  ELSE WithWindow(IF Len(S1.chat_windows) >= S1.max_chats
                                  THEN evict_least_recently_used(S1) ELSE S1))
    IN Created([S EXCEPT !.chat_last_activity = DictSet(S.chat_last_activity, m.chat_id, t)])

\* messages[-limit:] for limit > 0
LastN(s, k) == IF Len(s) <= k THEN s ELSE SubSeq(s, Len(s) - k + 1, Len(s))

\* None, as a limit.
NONE == -1

\* "if limit": None and 0 are false.
Truthy(limit) == limit # NONE /\ limit # 0

\* A get_messages that creates the window of a chat it does not know.
get_messages_defaultdict(S, c, limit, t) ==
    IF ~HasChat(S.chat_windows, c)
    THEN [store |-> [S EXCEPT !.chat_windows =
                        Append(S.chat_windows, [chat_id |-> c, messages |-> <<>>])],
          result |-> <<>>]
    ELSE LET S1 == [S EXCEPT !.chat_windows = move_to_end(S.chat_windows, c),
                             !.chat_last_activity = DictSet(S.chat_last_activity, c, t)]
             messages == WindowOf(S.chat_windows, c)
         IN [store |-> S1,
             result |-> IF Truthy(limit) THEN LastN(messages, limit) ELSE messages]

\* get_messages: [store, result].
get_messages(S, c, limit, t) ==
    IF ~HasChat(S.chat_windows, c) THEN [store |-> S, result |-> <<>>]
    ELSE LET S1 == [S EXCEPT !.chat_windows = move_to_end(S.chat_windows, c),
                             !.chat_last_activity = DictSet(S.chat_last_activity, c, t)]
             messages == WindowOf(S.chat_windows, c)
         IN [store |-> S1,
             result |-> IF Truthy(limit) THEN LastN(messages, limit) ELSE messages]

\* The index of the first bot message of a list instead of the last.
LastBotIndex_first(messages) ==
    IF \E i \in 1..Len(messages) : messages[i].is_bot_message
    THEN CHOOSE i \in 1..Len(messages) :
            /\ messages[i].is_bot_message
            /\ \A j \in 1..(i - 1) : ~messages[j].is_bot_message
    ELSE 0

\* Index of the last bot message of a list, 0 when it has none.
LastBotIndex(messages) ==
    IF \E i \in 1..Len(messages) : messages[i].is_bot_message
    THEN CHOOSE i \in 1..Len(messages) :
            /\ messages[i].is_bot_message
            /\ \A j \in (i+1)..Len(messages) : ~messages[j].is_bot_message
    ELSE 0

\* A has_recent_bot_message that never finds the bot's message.
has_recent_bot_message_never(S, c, seconds, t) ==
    [store |-> get_messages(S, c, NONE, t).store, result |-> FALSE]

has_recent_bot_message(S, c, seconds, t) ==
    LET Check(g, i) ==
            [store |-> g.store,
             result |-> i # 0 /\ t - g.result[i].timestamp <= seconds]
        Scan(g) == Check(g, LastBotIndex(g.result))
    IN Scan(get_messages(S, c, NONE, t))

\* " ".join(texts): the tokens of the texts, one text after the other.
RECURSIVE JoinTexts(_)
JoinTexts(texts) ==
    IF texts = <<>> THEN <<>> ELSE Head(texts) \o JoinTexts(Tail(texts))

\* get_recent_text: [store, result], the limit given to get_messages as it is.
get_recent_text(S, c, limit, t) ==
    LET Texts(with_text) == [i \in 1..Len(with_text) |-> with_text[i].text]
        Joined(g) ==
            [store |-> g.store,
             result |-> JoinTexts(Texts(SelectSeq(g.result, LAMBDA m : m.text # <<>>)))]
    IN Joined(get_messages(S, c, limit, t))

get_chat_count(S) == Len(S.chat_windows)

\* force_cleanup: [store, result], the result being the dict it returns.
force_cleanup(S, t) ==
    LET Report(S1) ==
            [store |-> S1,
             result |-> [initial_chats |-> Len(S.chat_windows),
                         cleaned_chats |-> Len(S.chat_windows) - Len(S1.chat_windows),
                         remaining_chats |-> Len(S1.chat_windows)]]
    IN Report(cleanup_inactive_chats(S, t))

(***************************************************************************)
(* Texts.  str.lower() on a token; the tokens the regular expressions of   *)
(* _is_direct_mention find (\b-delimited, so "robot" and "oleg_bot" hold   *)
(* neither "bot" nor "oleg" as a word).                                    *)
(***************************************************************************)
Lower(tok) ==
    CASE tok = "Bot" -> "bot"
      [] tok = "Oleg" -> "oleg"
      [] tok = "@Oleg_Bot" -> "@oleg_bot"
      [] tok = "/HELP" -> "/help"
      [] tok = "/SetGap" -> "/setgap"
      [] OTHER -> tok

TEXT_NONE == <<>>
TEXT_PLAIN == <<"nice", "weather", "today">>
TEXT_MENTION == <<"@oleg_bot", "hello">>
TEXT_BARE_MENTION == <<"hey", "Bot">>
TEXT_ROBOT == <<"robot", "news">>
TEXT_HELP == <<"/help">>
TEXT_STATUS == <<"/status">>
TEXT_STATS == <<"/stats">>
TEXT_SETGAP_5 == <<"/setgap", "5">>
TEXT_SETGAP_300 == <<"/setgap", "300">>
TEXT_SETGAP_BAD == <<"/setgap", "301">>
TEXT_SETQUOTA_100 == <<"/setquota", "1.0">>
TEXT_SETQUOTA_0 == <<"/setquota", "0">>
TEXT_SETQUOTA_50 == <<"/setquota", "0.5">>
TEXT_SETQUOTA_150 == <<"/setquota", "1.5">>
TEXT_SETQUOTA_NEG == <<"/setquota", "-1">>
TEXT_SETQUOTA_WORD == <<"/setquota", "lots">>
TEXT_SETQUOTA_SHOW == <<"/setquota">>
TEXT_SETQUOTAS == <<"/setquotas", "0.5">>
TEXT_SETGAP_4 == <<"/SetGap", "4">>
TEXT_SETGAP_FLOAT == <<"/setgap", "1.0">>

(***************************************************************************)
(* DecisionEngine.  An engine value E is the record of its attributes.     *)
(***************************************************************************)
ResponseAction == {"reply", "react", "ignore"}

\* A DecisionResult that is never to be processed.
DecisionResult_unprocessed(action, confidence, reasoning, process) ==
    [action |-> action, confidence |-> confidence, reasoning |-> reasoning,
     should_process |-> FALSE]

DecisionResult(action, confidence, reasoning, process) ==
    [action |-> action, confidence |-> confidence, reasoning |-> reasoning,
     should_process |-> process]

\* An _is_direct_mention that takes a message without text for a mention.
is_direct_mention_of_none(E, text) ==
    IF text = <<>> THEN TRUE
    ELSE \E i \in 1..Len(text) :
            LET w == Lower(text[i])
            IN \/ w = "@" \o E.bot_username
               \/ w = E.bot_username
               \/ w = "bot"
               \/ w = "oleg"

is_direct_mention(E, text) ==
    IF text = <<>> THEN FALSE
    ELSE \E i \in 1..Len(text) :
            LET w == Lower(text[i])
            IN \/ w = "@" \o E.bot_username
               \/ w = E.bot_username
               \/ w = "bot"
               \/ w = "oleg"

\* An _is_reply_to_bot that finds no reply to the bot.
is_reply_to_bot_never(message, recent_messages) == FALSE

is_reply_to_bot(message, recent_messages) ==
    IF message.reply_to_message_id = 0 THEN FALSE
    ELSE LET hits == {i \in 1..Len(recent_messages) :
                        recent_messages[i].message_id = message.reply_to_message_id}
         IN IF hits = {} THEN FALSE
            ELSE recent_messages[CHOOSE i \in hits : \A j \in hits : i <= j].is_bot_message

\* A _calculate_topic_heat without the final min(heat / 2.0, 1.0).
calculate_topic_heat_uncapped(recent_messages, t) ==
    IF Len(recent_messages) < 2 THEN [num |-> 0, den |-> 1]
    ELSE LET active == {i \in 1..Len(recent_messages) :
                          t - recent_messages[i].timestamp <= ACTIVE_WINDOW_SECONDS}
             n == Cardinality(active)
             u == Cardinality({recent_messages[i].user_id : i \in active})
             r == Cardinality({i \in active : recent_messages[i].reply_to_message_id # 0})
         IN IF n = 0 THEN [num |-> 0, den |-> 1]
            ELSE [num |-> 12*n*n + 20*n*Min(u, 3) + 15*Min(2*r, n), den |-> 300*n]

\* The heat as the exact rational num/den:
\*   heat = min((0.4*n/5 + 0.4*min(u/3,1) + 0.2*min(r/n,0.5)) / 2, 1)
\*        = min(12n^2 + 20n*min(u,3) + 15*min(2r,n), 300n) / 300n
calculate_topic_heat(recent_messages, t) ==
    IF Len(recent_messages) < 2 THEN [num |-> 0, den |-> 1]
    ELSE LET active == {i \in 1..Len(recent_messages) :
                          t - recent_messages[i].timestamp <= ACTIVE_WINDOW_SECONDS}
             n == Cardinality(active)
             u == Cardinality({recent_messages[i].user_id : i \in active})
             r == Cardinality({i \in active : recent_messages[i].reply_to_message_id # 0})
         IN IF n = 0 THEN [num |-> 0, den |-> 1]
            ELSE [num |-> Min(12*n*n + 20*n*Min(u, 3) + 15*Min(2*r, n), 300*n),
                  den |-> 300*n]

\* A _time_since_last_bot_message that looks for the bot's last message in every chat.
time_since_last_bot_message_any_chat(S, c, t) ==
    LET BotAges(w) == {t - w[i].timestamp : i \in {j \in 1..Len(w) : w[j].is_bot_message}}
        ages == UNION {BotAges(WindowOf(S.chat_windows, d)) : d \in ChatKeys(S.chat_windows)}
        recent == {a \in ages : a <= RECENT_BOT_SECONDS}
    IN [store |-> has_recent_bot_message(S, c, RECENT_BOT_SECONDS, t).store,
        result |-> IF recent = {} THEN INF
                   ELSE CHOOSE a \in recent : \A b \in recent : a <= b]

\* A _time_since_last_bot_message that takes any bot message within the hour as old.
time_since_last_bot_message_inf(S, c, t) ==
    [store |-> has_recent_bot_message(S, c, RECENT_BOT_SECONDS, t).store, result |-> INF]

time_since_last_bot_message(S, c, t) ==
    LET Since(g, i) ==
            [store |-> g.store,
             result |-> IF i # 0 THEN t - g.result[i].timestamp ELSE INF]
        Scan(g) == Since(g, LastBotIndex(g.result))
        After(h) ==
            IF h.result THEN Scan(get_messages(h.store, c, PACING_LIMIT, t))
            ELSE [store |-> h.store, result |-> INF]
    IN After(has_recent_bot_message(S, c, RECENT_BOT_SECONDS, t))

\* A quota read that resets as it should but always reports no usage.
get_current_quota_usage_zero(E, t) ==
    [engine |-> IF t - E.last_reset_time >= E.reset_interval
                THEN [E EXCEPT !.message_count = 0, !.reply_count = 0, !.last_reset_time = t]
                ELSE E,
     result |-> [num |-> 0, den |-> 1]]

\* A quota read that resets only once more than the interval has passed.
get_current_quota_usage_late(E, t) ==
    LET E1 == IF t - E.last_reset_time > E.reset_interval
              THEN [E EXCEPT !.message_count = 0, !.reply_count = 0, !.last_reset_time = t]
              ELSE E
    IN [engine |-> E1,
        result |-> IF E1.message_count = 0 THEN [num |-> 0, den |-> 1]
                   ELSE [num |-> E1.reply_count, den |-> E1.message_count]]

\* The quota usage as the exact rational num/den (0.0 is 0/1).
get_current_quota_usage(E, t) ==
    LET E1 == IF t - E.last_reset_time >= E.reset_interval
              THEN [E EXCEPT !.message_count = 0, !.reply_count = 0, !.last_reset_time = t]
              ELSE E
    IN [engine |-> E1,
        result |-> IF E1.message_count = 0 THEN [num |-> 0, den |-> 1]
                   ELSE [num |-> E1.reply_count, den |-> E1.message_count]]

\* Comparison of a computed rational q with a configured ratio of pct/100.
RatioGeq(q, pct) == 100 * q.num >= pct * q.den

\* random.random() < min((reply_target_ratio - quota) * 2, 0.1), the draw being draw/100.
ParticipationDraw(E, quota, draw) ==
    /\ draw < MAX_PARTICIPATION
    /\ draw * quota.den < 2 * (E.reply_target_ratio * quota.den - 100 * quota.num)

\* Decision rules whose hot-topic rule always replies, whatever the draw.
apply_decision_rules_no_reaction(E, context, draw) ==
    IF context.is_direct_mention
    THEN IF context.time_since_last_bot_message >= E.gap_min_seconds
         THEN DecisionResult("reply", 95, "Direct mention detected", TRUE)
         ELSE DecisionResult("react", 80, "Direct mention but rate limited, reacting instead", TRUE)
    ELSE IF context.is_reply_to_bot
    THEN IF context.time_since_last_bot_message >= E.gap_min_seconds
         THEN DecisionResult("reply", 90, "Reply to bot message", TRUE)
         ELSE DecisionResult("react", 70, "Reply to bot but rate limited, reacting instead", TRUE)
    ELSE IF context.time_since_last_bot_message < E.gap_min_seconds
    THEN DecisionResult("ignore", 90, "Rate limited", FALSE)
    ELSE IF RatioGeq(context.current_quota_usage, E.reply_target_ratio)
    THEN DecisionResult("ignore", 80, "Quota exceeded", FALSE)
    ELSE IF RatioGeq(context.topic_heat, E.topic_heat_threshold)
    THEN DecisionResult("reply", 60, "Hot topic participation (reply)", TRUE)
    ELSE IF ~RatioGeq(context.current_quota_usage, E.reply_target_ratio)
            /\ ParticipationDraw(E, context.current_quota_usage, draw)
    THEN DecisionResult("reply", 40, "Random participation", TRUE)
    ELSE DecisionResult("ignore", 50, "No compelling reason to respond", FALSE)

\* Decision rules without rule 4 (the quota).
apply_decision_rules_no_quota(E, context, draw) ==
    IF context.is_direct_mention
    THEN IF context.time_since_last_bot_message >= E.gap_min_seconds
         THEN DecisionResult("reply", 95, "Direct mention detected", TRUE)
         ELSE DecisionResult("react", 80, "Direct mention but rate limited, reacting instead", TRUE)
    ELSE IF context.is_reply_to_bot
    THEN IF context.time_since_last_bot_message >= E.gap_min_seconds
         THEN DecisionResult("reply", 90, "Reply to bot message", TRUE)
         ELSE DecisionResult("react", 70, "Reply to bot but rate limited, reacting instead", TRUE)
    ELSE IF context.time_since_last_bot_message < E.gap_min_seconds
    THEN DecisionResult("ignore", 90, "Rate limited", FALSE)
    ELSE IF RatioGeq(context.topic_heat, E.topic_heat_threshold)
    THEN IF draw < E.reaction_probability
         THEN DecisionResult("react", 60, "Hot topic participation (react)", TRUE)
         ELSE DecisionResult("reply", 60, "Hot topic participation (reply)", TRUE)
    ELSE IF ~RatioGeq(context.current_quota_usage, E.reply_target_ratio)
            /\ ParticipationDraw(E, context.current_quota_usage, draw)
    THEN DecisionResult("reply", 40, "Random participation", TRUE)
    ELSE DecisionResult("ignore", 50, "No compelling reason to respond", FALSE)

\* Decision rules without rule 3 (the pacing gap).
apply_decision_rules_unpaced(E, context, draw) ==
    IF context.is_direct_mention
    THEN IF context.time_since_last_bot_message >= E.gap_min_seconds
         THEN DecisionResult("reply", 95, "Direct mention detected", TRUE)
         ELSE DecisionResult("react", 80, "Direct mention but rate limited, reacting instead", TRUE)
    ELSE IF context.is_reply_to_bot
    THEN IF context.time_since_last_bot_message >= E.gap_min_seconds
         THEN DecisionResult("reply", 90, "Reply to bot message", TRUE)
         ELSE DecisionResult("react", 70, "Reply to bot but rate limited, reacting instead", TRUE)
    ELSE IF RatioGeq(context.current_quota_usage, E.reply_target_ratio)
    THEN DecisionResult("ignore", 80, "Quota exceeded", FALSE)
    ELSE IF RatioGeq(context.topic_heat, E.topic_heat_threshold)
    THEN IF draw < E.reaction_probability
         THEN DecisionResult("react", 60, "Hot topic participation (react)", TRUE)
         ELSE DecisionResult("reply", 60, "Hot topic participation (reply)", TRUE)
    ELSE IF ~RatioGeq(context.current_quota_usage, E.reply_target_ratio)
            /\ ParticipationDraw(E, context.current_quota_usage, draw)
    THEN DecisionResult("reply", 40, "Random participation", TRUE)
    ELSE DecisionResult("ignore", 50, "No compelling reason to respond", FALSE)

\* Decision rules that try rule 2 (reply to bot) before rule 1 (direct mention).
apply_decision_rules_reply_first(E, context, draw) ==
    IF context.is_reply_to_bot
    THEN IF context.time_since_last_bot_message >= E.gap_min_seconds
         THEN DecisionResult("reply", 90, "Reply to bot message", TRUE)
         ELSE DecisionResult("react", 70, "Reply to bot but rate limited, reacting instead", TRUE)
    ELSE IF context.is_direct_mention
    THEN IF context.time_since_last_bot_message >= E.gap_min_seconds
         THEN DecisionResult("reply", 95, "Direct mention detected", TRUE)
         ELSE DecisionResult("react", 80, "Direct mention but rate limited, reacting instead", TRUE)
    ELSE IF context.time_since_last_bot_message < E.gap_min_seconds
    THEN DecisionResult("ignore", 90, "Rate limited", FALSE)
    ELSE IF RatioGeq(context.current_quota_usage, E.reply_target_ratio)
    THEN DecisionResult("ignore", 80, "Quota exceeded", FALSE)
    ELSE IF RatioGeq(context.topic_heat, E.topic_heat_threshold)
    THEN IF draw < E.reaction_probability
         THEN DecisionResult("react", 60, "Hot topic participation (react)", TRUE)
         ELSE DecisionResult("reply", 60, "Hot topic participation (reply)", TRUE)
    ELSE IF ~RatioGeq(context.current_quota_usage, E.reply_target_ratio)
            /\ ParticipationDraw(E, context.current_quota_usage, draw)
    THEN DecisionResult("reply", 40, "Random participation", TRUE)
    ELSE DecisionResult("ignore", 50, "No compelling reason to respond", FALSE)

apply_decision_rules(E, context, draw) ==
    IF context.is_direct_mention
    THEN IF context.time_since_last_bot_message >= E.gap_min_seconds
         THEN DecisionResult("reply", 95, "Direct mention detected", TRUE)
         ELSE DecisionResult("react", 80, "Direct mention but rate limited, reacting instead", TRUE)
    ELSE IF context.is_reply_to_bot
    THEN IF context.time_since_last_bot_message >= E.gap_min_seconds
         THEN DecisionResult("reply", 90, "Reply to bot message", TRUE)
         ELSE DecisionResult("react", 70, "Reply to bot but rate limited, reacting instead", TRUE)
    ELSE IF context.time_since_last_bot_message < E.gap_min_seconds
    THEN DecisionResult("ignore", 90, "Rate limited", FALSE)
    ELSE IF RatioGeq(context.current_quota_usage, E.reply_target_ratio)
    THEN DecisionResult("ignore", 80, "Quota exceeded", FALSE)
    ELSE IF RatioGeq(context.topic_heat, E.topic_heat_threshold)
    THEN IF draw < E.reaction_probability
         THEN DecisionResult("react", 60, "Hot topic participation (react)", TRUE)
         ELSE DecisionResult("reply", 60, "Hot topic participation (reply)", TRUE)
    ELSE IF ~RatioGeq(context.current_quota_usage, E.reply_target_ratio)
            /\ ParticipationDraw(E, context.current_quota_usage, draw)
    THEN DecisionResult("reply", 40, "Random participation", TRUE)
    ELSE DecisionResult("ignore", 50, "No compelling reason to respond", FALSE)

\* An _update_state that counts a REPLY as a reply but not as a message.
update_state_reply_only(E, decision) ==
    [E EXCEPT !.message_count = IF decision.action = "reply" THEN @ ELSE @ + 1,
              !.reply_count = IF decision.action = "reply" THEN @ + 1 ELSE @]

\* An _update_state that counts a REACT as a reply too.
update_state_counts_reactions(E, decision) ==
    [E EXCEPT !.message_count = @ + 1,
              !.reply_count = IF decision.action \in {"reply", "react"} THEN @ + 1 ELSE @]

update_state(E, decision) ==
    [E EXCEPT !.message_count = @ + 1,
              !.reply_count = IF decision.action = "reply" THEN @ + 1 ELSE @]

build_context(S, E, c, message, t) ==
    LET Context(g, ts, q) ==
            [store |-> ts.store,
             engine |-> q.engine,
             context |-> [chat_id |-> c,
                          message_id |-> message.message_id,
                          is_direct_mention |-> is_direct_mention(E, message.text),
                          is_reply_to_bot |-> is_reply_to_bot(message, g.result),
                          topic_heat |-> calculate_topic_heat(g.result, t),
                          time_since_last_bot_message |-> ts.result,
                          current_quota_usage |-> q.result]]
        From(g) == Context(g, time_since_last_bot_message(g.store, c, t),
                           get_current_quota_usage(E, t))
    IN From(get_messages(S, c, CONTEXT_LIMIT, t))

should_respond(S, E, c, message, t, draw) ==
    LET Result(b, decision) ==
            [store |-> b.store,
             engine |-> update_state(b.engine, decision),
             context |-> b.context,
             decision |-> decision]
        Decide(b) == Result(b, apply_decision_rules(b.engine, b.context, draw))
    IN Decide(build_context(S, E, c, message, t))

\* get_stats: the dict literal reads _message_count and _reply_count before the
\* quota read (which may reset them).
get_stats(E, t) ==
    LET Stats(q) ==
            [engine |-> q.engine,
             stats |-> [message_count |-> E.message_count,
                        reply_count |-> E.reply_count,
                        current_quota_usage |-> q.result,
                        target_ratio |-> E.reply_target_ratio,
                        gap_min_seconds |-> E.gap_min_seconds,
                        topic_heat_threshold |-> E.topic_heat_threshold,
                        last_reset_time |-> q.engine.last_reset_time]]
    IN Stats(get_current_quota_usage(E, t))

\* The names hasattr(self, key) finds among the engine's data attributes.  (The
\* engine's method names are attributes too; the keys of the model leave them out.)
ENGINE_ATTRIBUTES ==
    {"bot_username", "reply_target_ratio", "gap_min_seconds", "topic_heat_threshold",
     "reaction_probability", "_message_count", "_reply_count", "_last_reset_time",
     "_reset_interval"}

\* update_settings(key=value): setattr for every key that hasattr finds.
update_settings(E, key, value) ==
    IF key \notin ENGINE_ATTRIBUTES THEN E
    ELSE CASE key = "reply_target_ratio" -> [E EXCEPT !.reply_target_ratio = value]
           [] key = "gap_min_seconds" -> [E EXCEPT !.gap_min_seconds = value]
           [] key = "topic_heat_threshold" -> [E EXCEPT !.topic_heat_threshold = value]
           [] key = "reaction_probability" -> [E EXCEPT !.reaction_probability = value]
           [] key = "bot_username" -> [E EXCEPT !.bot_username = value]
           [] key = "_message_count" -> [E EXCEPT !.message_count = value]
           [] key = "_reply_count" -> [E EXCEPT !.reply_count = value]
           [] key = "_last_reset_time" -> [E EXCEPT !.last_reset_time = value]
           [] key = "_reset_interval" -> [E EXCEPT !.reset_interval = value]

(***************************************************************************)
(* CommandHandler                                                          *)
(***************************************************************************)
COMMANDS == {"/setquota", "/setgap", "/stats", "/help", "/status"}

\* str.startswith on the tokens of the model
StartsWith(tok, cmd) ==
    \/ tok = cmd
    \/ tok = "/setquotas" /\ cmd = "/setquota"
    \/ tok = "/helpme" /\ cmd = "/help"

\* An is_command that finds no command.
is_command_never(text) == FALSE

is_command(text) ==
    IF text = <<>> THEN FALSE
    ELSE \E cmd \in COMMANDS : StartsWith(Lower(text[1]), cmd)

\* float(s): [ok, value], the value as 100 * the float
ParseFloat(tok) ==
    CASE tok = "0" -> [ok |-> TRUE, value |-> 0]
      [] tok = "0.5" -> [ok |-> TRUE, value |-> 50]
      [] tok = "1.0" -> [ok |-> TRUE, value |-> 100]
      [] tok = "1.5" -> [ok |-> TRUE, value |-> 150]
      [] tok = "-1" -> [ok |-> TRUE, value |-> -100]
      [] tok = "4" -> [ok |-> TRUE, value |-> 400]
      [] tok = "5" -> [ok |-> TRUE, value |-> 500]
      [] tok = "300" -> [ok |-> TRUE, value |-> 30000]
      [] tok = "301" -> [ok |-> TRUE, value |-> 30100]
      [] OTHER -> [ok |-> FALSE, value |-> 0]

\* int(s): [ok, value]
ParseInt(tok) ==
    CASE tok = "0" -> [ok |-> TRUE, value |-> 0]
      [] tok = "-1" -> [ok |-> TRUE, value |-> -1]
      [] tok = "4" -> [ok |-> TRUE, value |-> 4]
      [] tok = "5" -> [ok |-> TRUE, value |-> 5]
      [] tok = "300" -> [ok |-> TRUE, value |-> 300]
      [] tok = "301" -> [ok |-> TRUE, value |-> 301]
      [] OTHER -> [ok |-> FALSE, value |-> 0]

\* An _is_admin that lets every user through.
is_admin_anyone(user_id) == TRUE

is_admin(user_id) == user_id \in ADMIN_USER_IDS

handle_setquota(S, E, args) ==
    IF args = <<>> THEN [store |-> S, engine |-> E, response |-> <<"Current", "quota">>]
    ELSE LET p == ParseFloat(args[1])
         IN IF ~p.ok
            THEN [store |-> S, engine |-> E, response |-> <<"Invalid", "quota", "value">>]
            ELSE IF ~(0 <= p.value /\ p.value <= 100)
            THEN [store |-> S, engine |-> E, response |-> <<"Quota", "must", "be", "between">>]
            ELSE [store |-> S,
                  engine |-> update_settings(E, "reply_target_ratio", p.value),
                  response |-> <<"Quota", "updated">>]

handle_setgap(S, E, args) ==
    IF args = <<>> THEN [store |-> S, engine |-> E, response |-> <<"Current", "gap">>]
    ELSE LET p == ParseInt(args[1])
         IN IF ~p.ok
            THEN [store |-> S, engine |-> E, response |-> <<"Invalid", "gap", "value">>]
            ELSE IF ~(5 <= p.value /\ p.value <= 300)
            THEN [store |-> S, engine |-> E, response |-> <<"Gap", "must", "be", "between">>]
            ELSE [store |-> S,
                  engine |-> update_settings(E, "gap_min_seconds", p.value),
                  response |-> <<"Gap", "updated">>]

handle_stats(S, E, chat_id, t) ==
    LET st == get_stats(E, t)
        g == get_messages(S, chat_id, NONE, t)
    IN [store |-> g.store, engine |-> st.engine, response |-> <<"OlegBot", "Statistics">>]

handle_help(S, E) == [store |-> S, engine |-> E, response |-> <<"OlegBot", "Commands">>]

handle_status(S, E, chat_id, t) ==
    LET st == get_stats(E, t)
        ts == time_since_last_bot_message(S, chat_id, t)
    IN [store |-> ts.store, engine |-> st.engine, response |-> <<"Status">>]

handle_command(S, E, text, user_id, chat_id, t) ==
    IF ~is_command(text)
    THEN [store |-> S, engine |-> E, response |-> <<"Unknown", "command">>]
    ELSE LET command == Lower(text[1])
             args == Tail(text)
         IN IF command \in {"/setquota", "/setgap"} /\ ~is_admin(user_id)
            THEN [store |-> S, engine |-> E, response |-> <<"Admin", "permissions", "required">>]
            ELSE CASE command = "/setquota" -> handle_setquota(S, E, args)
                   [] command = "/setgap" -> handle_setgap(S, E, args)
                   [] command = "/stats" -> handle_stats(S, E, chat_id, t)
                   [] command = "/help" -> handle_help(S, E)
                   [] command = "/status" -> handle_status(S, E, chat_id, t)
                   [] OTHER -> [store |-> S, engine |-> E, response |-> <<"Unknown", "command">>]

(***************************************************************************)
(* ToneAnalyzer.  Here a message text is the sequence of its characters,   *)
(* each character its Unicode code point; None and "" are the empty        *)
(* sequence.  A threshold and a computed ratio are exact rationals num/den. *)
(***************************************************************************)
\* The characters str.strip() and str.split() take as whitespace.
WHITESPACE ==
    {9, 10, 11, 12, 13, 28, 29, 30, 31, 32, 133, 160, 5760, 8232, 8233, 8239, 8287, 12288}
        \cup (8192..8202)

\* The character class of emoji_pattern: its six ranges.
EMOJI_PATTERN_RANGES ==
    {<<128512, 128591>>,     \* \U0001f600-\U0001f64f
     <<127744, 128511>>,     \* \U0001f300-\U0001f5ff
     <<128640, 128767>>,     \* \U0001f680-\U0001f6ff
     <<127456, 127487>>,     \* \U0001f1e0-\U0001f1ff
     <<9986, 10160>>,        \* \U00002702-\U000027b0
     <<9410, 127569>>}       \* \U000024c2-\U0001f251

emoji_pattern(ch) == \E r \in EMOJI_PATTERN_RANGES : r[1] <= ch /\ ch <= r[2]

RECURSIVE Sum(_)
Sum(numbers) == IF numbers = <<>> THEN 0 ELSE Head(numbers) + Sum(Tail(numbers))

\* "msg and msg.strip()": the text has a character that is not whitespace.
NonBlank(text) == \E i \in 1..Len(text) : text[i] \notin WHITESPACE

\* len(message.split()): the number of maximal runs of non-whitespace characters.
RECURSIVE SplitCount(_, _)
SplitCount(text, in_word) ==
    IF text = <<>> THEN 0
    ELSE IF Head(text) \in WHITESPACE THEN SplitCount(Tail(text), FALSE)
    ELSE (IF in_word THEN 0 ELSE 1) + SplitCount(Tail(text), TRUE)

\* sum(len(match) for match in emoji_pattern.findall(message))
EmojiMatched(text) == Cardinality({i \in 1..Len(text) : emoji_pattern(text[i])})

calculate_emoji_density(messages) ==
    LET Density(emoji_chars, total_chars) ==
            IF total_chars = 0 THEN [num |-> 0, den |-> 1]
            ELSE [num |-> emoji_chars, den |-> total_chars]
    IN Density(Sum([i \in 1..Len(messages) |-> EmojiMatched(messages[i])]),
               Sum([i \in 1..Len(messages) |-> Len(messages[i])]))

calculate_avg_message_length(messages) ==
    IF messages = <<>> THEN [num |-> 0, den |-> 1]
    ELSE [num |-> Sum([i \in 1..Len(messages) |-> SplitCount(messages[i], FALSE)]),
          den |-> Len(messages)]

\* a > b for rationals with positive denominators
RatioGt(a, b) == a.num * b.den > b.num * a.den

ToneHints(emoji_density, formality_level, avg_message_length, has_high_emoji) ==
    [emoji_density |-> emoji_density, formality_level |-> formality_level,
     avg_message_length |-> avg_message_length, has_high_emoji |-> has_high_emoji]

NEUTRAL_TONE == ToneHints([num |-> 0, den |-> 1], "casual", [num |-> 0, den |-> 1], FALSE)

\* ToneAnalyzer(high_emoji_threshold, formal_length_threshold)
ToneAnalyzer(high_emoji_threshold, formal_length_threshold) ==
    [high_emoji_threshold |-> high_emoji_threshold,
     formal_length_threshold |-> formal_length_threshold]

\* An analyze_tone that takes an average at the threshold as formal.
analyze_tone_at_threshold(A, messages) ==
    LET Hints(emoji_density, avg_length) ==
            ToneHints(emoji_density,
                      IF ~RatioGt(A.formal_length_threshold, avg_length)
                      THEN "formal" ELSE "casual",
                      avg_length,
                      RatioGt(emoji_density, A.high_emoji_threshold))
        Analyze(valid_messages) ==
            IF valid_messages = <<>> THEN NEUTRAL_TONE
            ELSE Hints(calculate_emoji_density(valid_messages),
                       calculate_avg_message_length(valid_messages))
    IN IF messages = <<>> THEN NEUTRAL_TONE
       ELSE Analyze(SelectSeq(messages, NonBlank))

analyze_tone(A, messages) ==
    LET Hints(emoji_density, avg_length) ==
            ToneHints(emoji_density,
                      IF RatioGt(avg_length, A.formal_length_threshold)
                      THEN "formal" ELSE "casual",
                      avg_length,
                      RatioGt(emoji_density, A.high_emoji_threshold))
        Analyze(valid_messages) ==
            IF valid_messages = <<>> THEN NEUTRAL_TONE
            ELSE Hints(calculate_emoji_density(valid_messages),
                       calculate_avg_message_length(valid_messages))
    IN IF messages = <<>> THEN NEUTRAL_TONE
       ELSE Analyze(SelectSeq(messages, NonBlank))

(***************************************************************************)
(* GPTResponder.  A response text is a string; a character outside ASCII   *)
(* is written <U+XXXX>.  content=None and content="" (both falsy) are "".  *)
(***************************************************************************)
STOP_AFTER_ATTEMPT == 3         \* stop_after_attempt(3)
MAX_RESPONSE_CHARS == 500       \* len(cleaned_response) > 500
TRUNCATED_CHARS == 497          \* cleaned_response[:497] + "..."
NUM_FALLBACKS == 5              \* the phrases of one language

THINKING_FACE == "<U+1F914>"

FALLBACK_EN ==
    <<"Interesting point! <U+1F914>",
      "I see what you mean.",
      "That's worth thinking about.",
      "Fair enough!",
      "Good observation.">>

FALLBACK_ES ==
    <<"<U+00A1>Punto interesante! <U+1F914>",
      "Entiendo lo que quieres decir.",
      "Eso vale la pena pensarlo.",
      "<U+00A1>Justo!",
      "Buena observaci<U+00F3>n.">>

FALLBACK_RU ==
    <<"<U+0418><U+043D><U+0442><U+0435><U+0440><U+0435><U+0441><U+043D><U+0430><U+044F> <U+043C><U+044B><U+0441><U+043B><U+044C>! <U+1F914>",
      "<U+041F><U+043E><U+043D><U+0438><U+043C><U+0430><U+044E>, <U+0447><U+0442><U+043E> <U+0442><U+044B> <U+0438><U+043C><U+0435><U+0435><U+0448><U+044C> <U+0432> <U+0432><U+0438><U+0434><U+0443>.",
      "<U+041D><U+0430><U+0434> <U+044D><U+0442><U+0438><U+043C> <U+0441><U+0442><U+043E><U+0438><U+0442> <U+043F><U+043E><U+0434><U+0443><U+043C><U+0430><U+0442><U+044C>.",
      "<U+0421><U+043F><U+0440><U+0430><U+0432><U+0435><U+0434><U+043B><U+0438><U+0432><U+043E>!",
      "<U+0425><U+043E><U+0440><U+043E><U+0448><U+0435><U+0435> <U+043D><U+0430><U+0431><U+043B><U+044E><U+0434><U+0435><U+043D><U+0438><U+0435>.">>

FALLBACK_FR ==
    <<"Point int<U+00E9>ressant ! <U+1F914>",
      "Je vois ce que tu veux dire.",
      "<U+00C7>a vaut la peine d'y r<U+00E9>fl<U+00E9>chir.",
      "C'est juste !",
      "Bonne observation.">>

\* fallback_responses.get(language, fallback_responses["en"])
FallbackResponses(language) ==
    CASE language = "en" -> FALLBACK_EN
      [] language = "es" -> FALLBACK_ES
      [] language = "ru" -> FALLBACK_RU
      [] language = "fr" -> FALLBACK_FR
      [] OTHER -> FALLBACK_EN

\* The positions of str where old occurs.
Occurrences(str, old) ==
    {i \in 1..(Len(str) - Len(old) + 1) : SubSeq(str, i, i + Len(old) - 1) = old}

\* str.replace(old, new), old not empty: every occurrence, from the left.
RECURSIVE Replace(_, _, _)
Replace(str, old, new) ==
    LET Cut(first) ==
            SubSeq(str, 1, first - 1) \o new
                \o Replace(SubSeq(str, first + Len(old), Len(str)), old, new)
    IN IF Occurrences(str, old) = {} THEN str
       ELSE Cut(CHOOSE i \in Occurrences(str, old) : \A j \in Occurrences(str, old) : i <= j)

\* The whitespace characters of the model's strings.
SPACE_CHARS == {" ", "\t", "\n", "\r"}

RECURSIVE LStrip(_)
LStrip(str) ==
    IF str # "" /\ SubSeq(str, 1, 1) \in SPACE_CHARS
    THEN LStrip(SubSeq(str, 2, Len(str))) ELSE str

RECURSIVE RStrip(_)
RStrip(str) ==
    IF str # "" /\ SubSeq(str, Len(str), Len(str)) \in SPACE_CHARS
    THEN RStrip(SubSeq(str, 1, Len(str) - 1)) ELSE str

\* str.strip()
Strip(str) == RStrip(LStrip(str))

\* _get_fallback_response; choice is the index random.choice takes.
get_fallback_response(language, tone_hints, choice) ==
    IF tone_hints.formality_level = "formal"
    THEN Replace(FallbackResponses(language)[choice], " " \o THINKING_FACE, "")
    ELSE FallbackResponses(language)[choice]

\* What one call of client.chat.completions.create does: it raises, or it returns a
\* completion without choices, or one whose first choice has the given content.
Raises == [kind |-> "error", content |-> ""]
NoChoices == [kind |-> "no_choices", content |-> ""]
Completion(content) == [kind |-> "completion", content |-> content]

\* A backend fails its first `errors` calls and answers every later one with `then`.
Attempt(backend, i) == IF i <= backend.errors THEN Raises ELSE backend.then

\* _call_openai_with_retry: [attempts, response], the response Raises when the last
\* attempt has failed and its exception is re-raised.
RECURSIVE call_openai_with_retry(_, _)
call_openai_with_retry(backend, attempt) ==
    IF Attempt(backend, attempt).kind # "error" \/ attempt >= STOP_AFTER_ATTEMPT
    THEN [attempts |-> attempt, response |-> Attempt(backend, attempt)]
    ELSE call_openai_with_retry(backend, attempt + 1)

\* _extract_response: [ok, text], ok false when it raises ValueError.
extract_response(response) ==
    LET Limited(cleaned) ==
            IF Len(cleaned) > MAX_RESPONSE_CHARS
            THEN SubSeq(cleaned, 1, TRUNCATED_CHARS) \o "..." ELSE cleaned
        Unquoted(cleaned) ==
            Limited(IF /\ Len(cleaned) >= 2
                       /\ SubSeq(cleaned, 1, 1) = "\""
                       /\ SubSeq(cleaned, Len(cleaned), Len(cleaned)) = "\""
                    THEN Strip(SubSeq(cleaned, 2, Len(cleaned) - 1))
                    ELSE cleaned)
    IN IF response.kind = "no_choices" \/ response.content = ""
       THEN [ok |-> FALSE, text |-> ""]
       ELSE [ok |-> TRUE, text |-> Unquoted(Strip(response.content))]

\* generate_response: [attempts, text, requests], requests being _total_requests after
\* the call on a new responder.
generate_response(backend, language, tone_hints, choice) ==
    LET Fallback(r) ==
            [attempts |-> r.attempts,
             text |-> get_fallback_response(language, tone_hints, choice),
             requests |-> 0]
        Extracted(r, e) ==
            IF e.ok THEN [attempts |-> r.attempts, text |-> e.text, requests |-> 1]
            ELSE Fallback(r)
        Answered(r) ==
            IF r.response.kind = "error" THEN Fallback(r)
            ELSE Extracted(r, extract_response(r.response))
    IN Answered(call_openai_with_retry(backend, 1))

(***************************************************************************)
(* The webhook pipeline.  Each invocation of handle_telegram_webhook is a  *)
(* coroutine on one event loop: the code between two awaits runs           *)
(* atomically, and other invocations run while one is suspended in         *)
(* generate_response, bot.send_message or bot.set_message_reaction.        *)
(***************************************************************************)
VARIABLES
    now,               \* the wall clock (datetime.now(), time.time())
    message_store,     \* store.message_store
    decision_engine,   \* decision.decision_engine
    handlers,          \* the webhook invocations: where each is suspended, and its locals
    next_message_id,   \* the next message_id Telegram assigns
    inbound,           \* number of updates delivered so far
    ticks,             \* number of clock advances so far
    failures,          \* number of failed calls and cancellations so far
    last_decision,     \* the last should_respond call: its context, result and inputs
    eval_count,        \* should_respond calls since the last quota reset
    reply_decisions,   \* REPLY results since the last quota reset
    appended,          \* per chat, the message_id of every add_message call, in order
    created_len,       \* per chat, number of add_message calls since its window was created
    reply_sent_at,     \* per chat, when the last reply was sent successfully (-1: never)
    fate,              \* what became of the inbound messages, by message_id
    last_call,         \* the last direct call of a store, engine or command operation
    touched,           \* the chats in the order of their last add_message or get_messages
    settings           \* config.settings

vars == <<now, message_store, decision_engine, handlers, next_message_id, inbound,
          ticks, failures, last_decision, eval_count, reply_decisions, appended,
          created_len, reply_sent_at, fate, last_call, touched, settings>>

TickSteps == {DEFAULT_GAP_MIN_SECONDS, RESET_INTERVAL}
Draws == {0, 50}
InboundTexts == {TEXT_PLAIN, TEXT_MENTION, TEXT_SETQUOTA_100}

NoMessage == StoredMessage(0, 0, 0, <<>>, 0, FALSE, 0)

HTTP_OK == 200
HTTP_BAD_REQUEST == 400
HTTP_FORBIDDEN == 403
HTTP_INTERNAL_SERVER_ERROR == 500

\* The ways a call ends: it returns, it raises an Exception, or it is cancelled
\* (asyncio.CancelledError, which is no Exception).
ENDS == {"returns", "raises", "cancelled"}

\* An except clause that raises the exception again.
except_Exception_raise(end) == end

\* "except Exception as e:" around a body that ends with end, the clause tracking and
\* logging the error.
except_Exception(end) == IF end = "raises" THEN "returns" ELSE end

\* process_bot_logic, process_message and process_update, each a try around its body
\* with the clause above.
process_bot_logic_ends(end) == except_Exception(end)

process_message_ends(end) == except_Exception(end)

process_update_ends(end) == except_Exception(end)

\* handle_telegram_webhook once the update is parsed: {"status": "ok"} after
\* process_update, or HTTPException(status_code=500) from its own except clause.  (A
\* cancelled request task gives no answer.)
handle_telegram_webhook_status(end) ==
    CASE end = "returns" -> HTTP_OK
      [] end = "raises" -> HTTP_INTERNAL_SERVER_ERROR

\* The answer to a request whose process_bot_logic body ends with end.
AnswerAfterBotLogic(end) ==
    handle_telegram_webhook_status(
        process_update_ends(process_message_ends(process_bot_logic_ends(end))))

\* The answer to a request whose process_message body ends with end before
\* process_bot_logic is called.
AnswerAfterMessage(end) ==
    handle_telegram_webhook_status(process_update_ends(process_message_ends(end)))

\* str.startswith(prefix)
startswith(str, prefix) ==
    /\ Len(str) >= Len(prefix)
    /\ SubSeq(str, 1, Len(prefix)) = prefix

\* The method of reaction_handler that process_bot_logic takes the reaction of a
\* REACT from.
reaction_for(reasoning) ==
    IF startswith(reasoning, "Direct mention") THEN "get_reaction_for_mention"
    ELSE IF startswith(reasoning, "Reply to bot") THEN "get_reaction_for_reply"
    ELSE "choose_reaction"

IdleHandler ==
    [pc |-> "idle", message |-> NoMessage, reasoning |-> "", reaction |-> "",
     response |-> <<>>]

NoDecision ==
    [context |-> [chat_id |-> 0, message_id |-> 0, is_direct_mention |-> FALSE,
                  is_reply_to_bot |-> FALSE, topic_heat |-> [num |-> 0, den |-> 1],
                  time_since_last_bot_message |-> INF,
                  current_quota_usage |-> [num |-> 0, den |-> 1]],
     decision |-> DecisionResult("none", 0, "", FALSE),
     window |-> <<>>,
     message_count |-> 0, reply_count |-> 0,
     reply_target_ratio |-> 0, gap_min_seconds |-> 0, topic_heat_threshold |-> 0,
     reset |-> FALSE, now |-> 0]

NoFate == [reply_decided |-> {}, gen_failed |-> {}, send_failed |-> {}, cancelled |-> {},
           replied |-> {}, reacted |-> {}, finished |-> {}, answers |-> {}]

\* telegram_webhook_secret = None (a secret that is not configured is falsy).
NO_SECRET == ""

\* Settings() with the given telegram_webhook_secret
NewSettings(secret) == [telegram_webhook_secret |-> secret]

\* SlidingWindowStore(window_size, max_chats): cleanup_interval_hours is left at 24.
NewStore(window_size, max_chats) ==
    [chat_windows |-> <<>>, chat_last_activity |-> <<>>,
     window_size |-> window_size, max_chats |-> max_chats,
     cleanup_interval |-> CLEANUP_INTERVAL_SECONDS]

\* DecisionEngine() at time t
NewEngine(t) ==
    [bot_username |-> "oleg_bot",
     reply_target_ratio |-> DEFAULT_REPLY_TARGET_RATIO,
     gap_min_seconds |-> DEFAULT_GAP_MIN_SECONDS,
     topic_heat_threshold |-> DEFAULT_TOPIC_HEAT_THRESHOLD,
     reaction_probability |-> DEFAULT_REACTION_PROBABILITY,
     message_count |-> 0, reply_count |-> 0,
     last_reset_time |-> t, reset_interval |-> RESET_INTERVAL]

\* No call yet.  A call record has a field for each kind of return value: the list of
\* get_messages, the string of get_recent_text and handle_command, the answer of
\* has_recent_bot_message, the dict of force_cleanup, the dict of get_stats and the
\* ToneHints of analyze_tone; for add_message the chats the call removed; for
\* analyze_tone the analyzer it is called on and the batch it is given; and for
\* generate_response the backend it meets, the language and the tone hints it is
\* given (arg is the phrase random.choice takes), the attempts it makes, the
\* response it returns and the requests it has counted; and for
\* handle_telegram_webhook the X-Telegram-Bot-Api-Secret-Token header of the request
\* and the status the request is answered with; for _calculate_topic_heat the
\* heat it returns; and for choose_reaction the message text and the context it is
\* given, the pool _adjust_for_tone returns and the reaction chosen.
NoCall ==
    [seq |-> 0, op |-> "none", chat |-> 0, arg |-> 0, text |-> <<>>,
     messages |-> <<>>, string |-> <<>>, found |-> FALSE, removed |-> {},
     analyzer |-> ToneAnalyzer([num |-> 0, den |-> 1], [num |-> 0, den |-> 1]),
     batch |-> <<>>, hints |-> NEUTRAL_TONE,
     backend |-> [errors |-> 0, then |-> NoChoices], language |-> "",
     attempts |-> 0, response |-> "", requests |-> 0,
     header |-> "", status |-> 0, heat |-> [num |-> 0, den |-> 1],
     message_text |-> "", context |-> "", pool |-> <<>>, reaction |-> "",
     report |-> [initial_chats |-> 0, cleaned_chats |-> 0, remaining_chats |-> 0],
     stats |-> [message_count |-> 0, reply_count |-> 0,
                current_quota_usage |-> [num |-> 0, den |-> 1],
                target_ratio |-> 0, gap_min_seconds |-> 0, topic_heat_threshold |-> 0,
                last_reset_time |-> 0]]

Init ==
    /\ now = 0
    /\ message_store = NewStore(WindowSizeBound, MaxChatsBound)
    /\ decision_engine = NewEngine(0)
    /\ handlers = [h \in Handlers |-> IdleHandler]
    /\ next_message_id = 1
    /\ inbound = 0
    /\ ticks = 0
    /\ failures = 0
    /\ last_decision = NoDecision
    /\ eval_count = 0
    /\ reply_decisions = 0
    /\ appended = [c \in Chats |-> <<>>]
    /\ created_len = [c \in Chats |-> 0]
    /\ reply_sent_at = [c \in Chats |-> -1]
    /\ fate = NoFate
    /\ last_call = NoCall
    /\ touched = <<>>
    /\ settings = NewSettings(NO_SECRET)

\* A call: its number in the run, the operation, its chat_id and its other argument
\* (a limit, a number of seconds, a message_id or a user_id).
Call(op, chat, arg) ==
    [NoCall EXCEPT !.seq = last_call.seq + 1, !.op = op, !.chat = chat, !.arg = arg]

\* A counter kept since the last quota reset, across a step from engine E0 to E1.
SinceReset(E0, E1, count) == IF E1.last_reset_time # E0.last_reset_time THEN 0 ELSE count

\* What a should_respond call was given and what it returned: S1 the store it
\* read, sr its result; the counters and settings are those of the engine before it,
\* the counters after the lazy reset if the call made one.
Observed(S1, sr, chat) ==
    [context |-> sr.context, decision |-> sr.decision,
     window |-> WindowOf(S1.chat_windows, chat),
     message_count |-> SinceReset(decision_engine, sr.engine, decision_engine.message_count),
     reply_count |-> SinceReset(decision_engine, sr.engine, decision_engine.reply_count),
     reply_target_ratio |-> decision_engine.reply_target_ratio,
     gap_min_seconds |-> decision_engine.gap_min_seconds,
     topic_heat_threshold |-> decision_engine.topic_heat_threshold,
     reset |-> sr.engine.last_reset_time # decision_engine.last_reset_time,
     now |-> now]

\* The bookkeeping of one add_message(m) call, from the store before it.
LogAppend(log, m) == [log EXCEPT ![m.chat_id] = Append(@, m.message_id)]

LogCreated(S, cl, m) ==
    [cl EXCEPT ![m.chat_id] = IF HasChat(S.chat_windows, m.chat_id) THEN @ + 1 ELSE 1]

\* An update is taken by a free invocation; which one is immaterial.
Free(h) == /\ handlers[h].pc = "idle"
           /\ \A g \in Handlers : g < h => handlers[g].pc # "idle"

\* Chats are interchangeable: a run uses chat 1 first.
InUse(c) == IF c = 1 THEN TRUE ELSE appended[c - 1] # <<>>

\* Who writes in the pipeline's runs: one user, who is an administrator.
Senders == ADMIN_USER_IDS

\* The message an inbound message may reply to: none, or the bot's latest in the window.
ReplyChoices(c) ==
    LET w == WindowOf(message_store.chat_windows, c)
        i == LastBotIndex(w)
    IN {0} \cup (IF i = 0 THEN {} ELSE {w[i].message_id})

Tick(d) ==
    /\ ticks < MaxTicks
    /\ now' = now + d
    /\ ticks' = ticks + 1
    /\ UNCHANGED <<settings, last_call, touched, message_store, decision_engine, handlers, next_message_id, inbound,
                   failures, last_decision, eval_count, reply_decisions, appended,
                   created_len, fate,
                   reply_sent_at>>

\* process_message and process_bot_logic for a message without text: stored, then skipped.
ProcessNoText(h, chat, user) ==
    /\ Free(h)
    /\ InUse(chat)
    /\ inbound < MaxMessages
    /\ LET m == StoredMessage(next_message_id, chat, user, TEXT_NONE, now, FALSE, 0)
       IN /\ message_store' = add_message(message_store, m, now)
          /\ appended' = LogAppend(appended, m)
          /\ created_len' = LogCreated(message_store, created_len, m)
          /\ fate' = [fate EXCEPT !.finished = @ \cup {m.message_id},
                                  !.answers = @ \cup {<<m.message_id, AnswerAfterBotLogic("returns")>>}]
    /\ next_message_id' = next_message_id + 1
    /\ inbound' = inbound + 1
    /\ UNCHANGED <<settings, touched, now, decision_engine, handlers, ticks, failures, last_decision,
                   eval_count, reply_decisions,
                   reply_sent_at>>

\* process_message and process_bot_logic for a command, up to "await bot.send_message".
ProcessCommand(h, chat, user, text) ==
    /\ Free(h)
    /\ InUse(chat)
    /\ inbound < MaxMessages
    /\ text # <<>>
    /\ is_command(text)
    /\ LET Respond(m, hc) ==
            /\ message_store' = hc.store
            /\ decision_engine' = hc.engine
            /\ handlers' = [handlers EXCEPT ![h] =
                              [pc |-> "send_command", message |-> m, reasoning |-> "", reaction |-> "",
                               response |-> hc.response]]
            /\ appended' = LogAppend(appended, m)
            /\ created_len' = LogCreated(message_store, created_len, m)
            /\ eval_count' = SinceReset(decision_engine, hc.engine, eval_count)
            /\ reply_decisions' = SinceReset(decision_engine, hc.engine, reply_decisions)
           Store(m) ==
            Respond(m, handle_command(add_message(message_store, m, now), decision_engine,
                                      text, user, chat, now))
       IN Store(StoredMessage(next_message_id, chat, user, text, now, FALSE, 0))
    /\ next_message_id' = next_message_id + 1
    /\ inbound' = inbound + 1
    /\ UNCHANGED <<settings, touched, now, ticks, failures, last_decision, fate, reply_sent_at>>

\* process_message and process_bot_logic for any other message, up to the first await:
\* add_message, should_respond, and for a REPLY or REACT the get_messages(limit=10).
ProcessMessage(h, chat, user, text, reply, draw) ==
    /\ Free(h)
    /\ InUse(chat)
    /\ inbound < MaxMessages
    /\ text # <<>>
    /\ ~is_command(text)
    /\ LET Process(m, d, S2) ==
            /\ message_store' = S2
            /\ handlers' = [handlers EXCEPT ![h] =
                  IF ~d.should_process THEN IdleHandler
                  ELSE [pc |-> IF d.action = "react" THEN "react" ELSE "generate",
                        message |-> m, reasoning |-> d.reasoning,
                        reaction |-> IF d.action = "react"
                                     THEN reaction_for(d.reasoning) ELSE "",
                        response |-> <<>>]]
            /\ fate' = [fate EXCEPT
                  !.reply_decided = IF d.action = "reply" THEN @ \cup {m.message_id} ELSE @,
                  !.finished = IF ~d.should_process THEN @ \cup {m.message_id} ELSE @,
                  !.answers = IF ~d.should_process
                              THEN @ \cup {<<m.message_id, AnswerAfterBotLogic("returns")>>}
                              ELSE @]
           Decided(m, S1, sr) ==
            /\ Process(m, sr.decision,
                       IF sr.decision.should_process
                       THEN get_messages(sr.store, chat, PIPELINE_LIMIT, now).store
                       ELSE sr.store)
            /\ decision_engine' = sr.engine
            /\ last_decision' = Observed(S1, sr, chat)
            /\ appended' = LogAppend(appended, m)
            /\ created_len' = LogCreated(message_store, created_len, m)
            /\ eval_count' = SinceReset(decision_engine, sr.engine, eval_count) + 1
            /\ reply_decisions' = SinceReset(decision_engine, sr.engine, reply_decisions)
                                    + (IF sr.decision.action = "reply" THEN 1 ELSE 0)
           Stored(m, S1) ==
            Decided(m, S1, should_respond(S1, decision_engine, chat, m, now, draw))
           Store(m) == Stored(m, add_message(message_store, m, now))
       IN Store(StoredMessage(next_message_id, chat, user, text, now, FALSE, reply))
    /\ next_message_id' = next_message_id + 1
    /\ inbound' = inbound + 1
    /\ UNCHANGED <<settings, touched, now, ticks, failures, reply_sent_at>>

\* handle_telegram_webhook with no secret configured, for an update that carries a
\* message: process_update hands the message to process_message.
ReceiveNoText(h, chat, user) ==
    ProcessNoText(h, chat, user) /\ UNCHANGED last_call

ReceiveCommand(h, chat, user, text) ==
    ProcessCommand(h, chat, user, text) /\ UNCHANGED last_call

ReceiveMessage(h, chat, user, text, reply, draw) ==
    ProcessMessage(h, chat, user, text, reply, draw) /\ UNCHANGED last_call

GENERATED_TEXT == <<"witty", "answer">>
FALLBACK_TEXT == <<"Fair", "enough!">>

\* The StoredMessage send_message builds once bot.send_message has returned.
BotMessage(h, text) ==
    StoredMessage(next_message_id, handlers[h].message.chat_id, 0, text, now, TRUE,
                  handlers[h].message.message_id)

\* generate_response returns the backend's text; the caller goes on to send_message.
GenerateOk(h) ==
    /\ handlers[h].pc = "generate"
    /\ handlers' = [handlers EXCEPT ![h].pc = "send_reply", ![h].response = GENERATED_TEXT]
    /\ UNCHANGED <<settings, last_call, touched, now, message_store, decision_engine, next_message_id, inbound, ticks,
                   failures, last_decision, eval_count, reply_decisions, appended,
                   created_len, fate,
                   reply_sent_at>>

\* The backend fails (after its retries): generate_response catches the exception and
\* returns a canned phrase; the caller goes on to send_message with it.
GenerateFails(h) ==
    /\ handlers[h].pc = "generate"
    /\ failures < MaxFailures
    /\ failures' = failures + 1
    /\ handlers' = [handlers EXCEPT ![h].pc = "send_reply", ![h].response = FALLBACK_TEXT]
    /\ fate' = [fate EXCEPT !.gen_failed = @ \cup {handlers[h].message.message_id}]
    /\ UNCHANGED <<settings, last_call, touched, now, message_store, decision_engine, next_message_id, inbound, ticks,
                   last_decision, eval_count, reply_decisions, appended, created_len,
                   reply_sent_at>>

\* The task is cancelled while suspended in generate_response: asyncio.CancelledError
\* is no Exception, so no except clause of the pipeline catches it and the invocation
\* ends there.
GenerateCancelled(h) ==
    /\ handlers[h].pc = "generate"
    /\ failures < MaxFailures
    /\ failures' = failures + 1
    /\ handlers' = [handlers EXCEPT ![h] = IdleHandler]
    /\ fate' = [fate EXCEPT !.cancelled = @ \cup {handlers[h].message.message_id},
                            !.finished = @ \cup {handlers[h].message.message_id}]
    /\ UNCHANGED <<settings, last_call, touched, now, message_store, decision_engine, next_message_id, inbound, ticks,
                   last_decision, eval_count, reply_decisions, appended, created_len,
                   reply_sent_at>>

\* "await bot.send_message" of a reply returns: the bot's message is stored.
SendReplyOk(h) ==
    /\ handlers[h].pc = "send_reply"
    /\ LET m == BotMessage(h, handlers[h].response)
       IN /\ message_store' = add_message(message_store, m, now)
          /\ appended' = LogAppend(appended, m)
          /\ created_len' = LogCreated(message_store, created_len, m)
    /\ next_message_id' = next_message_id + 1
    /\ handlers' = [handlers EXCEPT ![h] = IdleHandler]
    /\ fate' = [fate EXCEPT !.replied = @ \cup {handlers[h].message.message_id},
                            !.finished = @ \cup {handlers[h].message.message_id},
                            !.answers = @ \cup {<<handlers[h].message.message_id, AnswerAfterBotLogic("returns")>>}]
    /\ reply_sent_at' = [reply_sent_at EXCEPT ![handlers[h].message.chat_id] = now]
    /\ UNCHANGED <<settings, last_call, touched, now, decision_engine, inbound, ticks, failures, last_decision,
                   eval_count, reply_decisions>>

\* "await bot.send_message" of a reply raises: process_bot_logic's inner except
\* chooses a reaction and awaits send_reaction.
SendReplyFails(h) ==
    /\ handlers[h].pc = "send_reply"
    /\ failures < MaxFailures
    /\ failures' = failures + 1
    /\ handlers' = [handlers EXCEPT ![h].pc = "fallback_react",
                                    ![h].reaction = "choose_reaction"]
    /\ fate' = [fate EXCEPT !.send_failed = @ \cup {handlers[h].message.message_id}]
    /\ UNCHANGED <<settings, last_call, touched, now, message_store, decision_engine, next_message_id, inbound, ticks,
                   last_decision, eval_count, reply_decisions, appended, created_len,
                   reply_sent_at>>

\* "await bot.send_message" of a command's response returns: it is stored.
SendCommandOk(h) ==
    /\ handlers[h].pc = "send_command"
    /\ LET m == BotMessage(h, handlers[h].response)
       IN /\ message_store' = add_message(message_store, m, now)
          /\ appended' = LogAppend(appended, m)
          /\ created_len' = LogCreated(message_store, created_len, m)
    /\ next_message_id' = next_message_id + 1
    /\ handlers' = [handlers EXCEPT ![h] = IdleHandler]
    /\ fate' = [fate EXCEPT !.finished = @ \cup {handlers[h].message.message_id},
                            !.answers = @ \cup {<<handlers[h].message.message_id, AnswerAfterBotLogic("returns")>>}]
    /\ UNCHANGED <<settings, last_call, touched, now, decision_engine, inbound, ticks, failures, last_decision,
                   eval_count, reply_decisions,
                   reply_sent_at>>

\* "await bot.send_message" of a command's response raises: process_bot_logic's
\* outer except logs it.
SendCommandFails(h) ==
    /\ handlers[h].pc = "send_command"
    /\ failures < MaxFailures
    /\ failures' = failures + 1
    /\ handlers' = [handlers EXCEPT ![h] = IdleHandler]
    /\ fate' = [fate EXCEPT !.finished = @ \cup {handlers[h].message.message_id},
                            !.answers = @ \cup {<<handlers[h].message.message_id, AnswerAfterBotLogic("raises")>>}]
    /\ UNCHANGED <<settings, last_call, touched, now, message_store, decision_engine, next_message_id, inbound, ticks,
                   last_decision, eval_count, reply_decisions, appended, created_len,
                   reply_sent_at>>

\* send_reaction returns, the reaction set.  (fate.reacted: send_reaction was called.)
ReactionOk(h) ==
    /\ handlers[h].pc \in {"react", "fallback_react"}
    /\ handlers' = [handlers EXCEPT ![h] = IdleHandler]
    /\ fate' = [fate EXCEPT !.reacted = @ \cup {handlers[h].message.message_id},
                            !.finished = @ \cup {handlers[h].message.message_id},
                            !.answers = @ \cup {<<handlers[h].message.message_id, AnswerAfterBotLogic("returns")>>}]
    /\ UNCHANGED <<settings, last_call, touched, now, message_store, decision_engine, next_message_id, inbound, ticks,
                   failures, last_decision, eval_count, reply_decisions, appended,
                   created_len,
                   reply_sent_at>>

\* send_reaction returns, having caught and logged the error of set_message_reaction.
ReactionFails(h) ==
    /\ handlers[h].pc \in {"react", "fallback_react"}
    /\ failures < MaxFailures
    /\ failures' = failures + 1
    /\ handlers' = [handlers EXCEPT ![h] = IdleHandler]
    /\ fate' = [fate EXCEPT !.reacted = @ \cup {handlers[h].message.message_id},
                            !.finished = @ \cup {handlers[h].message.message_id},
                            !.answers = @ \cup {<<handlers[h].message.message_id, AnswerAfterBotLogic("returns")>>}]
    /\ UNCHANGED <<settings, last_call, touched, now, message_store, decision_engine, next_message_id, inbound, ticks,
                   last_decision, eval_count, reply_decisions, appended, created_len,
                   reply_sent_at>>

Next ==
    \/ \E d \in TickSteps : Tick(d)
    \/ \E h \in Handlers, c \in Chats, u \in Senders : ReceiveNoText(h, c, u)
    \/ \E h \in Handlers, c \in Chats, u \in Senders, x \in InboundTexts :
          ReceiveCommand(h, c, u, x)
    \/ \E h \in Handlers, c \in Chats, u \in Senders, x \in InboundTexts, draw \in Draws :
          \E r \in ReplyChoices(c) : ReceiveMessage(h, c, u, x, r, draw)
    \/ \E h \in Handlers : GenerateOk(h)
    \/ \E h \in Handlers : GenerateFails(h)
    \/ \E h \in Handlers : GenerateCancelled(h)
    \/ \E h \in Handlers : SendReplyOk(h)
    \/ \E h \in Handlers : SendReplyFails(h)
    \/ \E h \in Handlers : SendCommandOk(h)
    \/ \E h \in Handlers : SendCommandFails(h)
    \/ \E h \in Handlers : ReactionOk(h)
    \/ \E h \in Handlers : ReactionFails(h)

Spec == Init /\ [][Next]_vars

(***************************************************************************)
(* The pipeline with failures of the store and of the decision engine as   *)
(* well: add_message or should_respond raises, and the except clause of    *)
(* process_message or of process_bot_logic ends the invocation.            *)
(***************************************************************************)
\* message_store.add_message(stored_message) raises in process_message: nothing is
\* stored and process_bot_logic is not called.
StoreFails(h, chat, user) ==
    /\ Free(h)
    /\ InUse(chat)
    /\ inbound < MaxMessages
    /\ failures < MaxFailures
    /\ failures' = failures + 1
    /\ fate' = [fate EXCEPT !.finished = @ \cup {next_message_id},
                            !.answers = @ \cup {<<next_message_id,
                                                  AnswerAfterMessage("raises")>>}]
    /\ next_message_id' = next_message_id + 1
    /\ inbound' = inbound + 1
    /\ UNCHANGED <<settings, last_call, touched, now, message_store, decision_engine,
                   handlers, ticks, last_decision, eval_count, reply_decisions, appended,
                   created_len, reply_sent_at>>

\* decision_engine.should_respond(message.chat_id, message) raises in
\* process_bot_logic: the message is stored and nothing is decided.
EngineFails(h, chat, user, text) ==
    /\ Free(h)
    /\ InUse(chat)
    /\ inbound < MaxMessages
    /\ failures < MaxFailures
    /\ text # <<>>
    /\ ~is_command(text)
    /\ failures' = failures + 1
    /\ LET m == StoredMessage(next_message_id, chat, user, text, now, FALSE, 0)
       IN /\ message_store' = add_message(message_store, m, now)
          /\ appended' = LogAppend(appended, m)
          /\ created_len' = LogCreated(message_store, created_len, m)
          /\ fate' = [fate EXCEPT !.finished = @ \cup {m.message_id},
                                  !.answers = @ \cup {<<m.message_id,
                                                        AnswerAfterBotLogic("raises")>>}]
    /\ next_message_id' = next_message_id + 1
    /\ inbound' = inbound + 1
    /\ UNCHANGED <<settings, last_call, touched, now, decision_engine, handlers, ticks,
                   last_decision, eval_count, reply_decisions, reply_sent_at>>

AnswerNext ==
    \/ \E d \in TickSteps : Tick(d)
    \/ \E h \in Handlers, c \in Chats, u \in Senders : ReceiveNoText(h, c, u)
    \/ \E h \in Handlers, c \in Chats, u \in Senders, x \in InboundTexts :
          ReceiveCommand(h, c, u, x)
    \/ \E h \in Handlers, c \in Chats, u \in Senders, x \in InboundTexts, draw \in Draws :
          \E r \in ReplyChoices(c) : ReceiveMessage(h, c, u, x, r, draw)
    \/ \E h \in Handlers, c \in Chats, u \in Senders : StoreFails(h, c, u)
    \/ \E h \in Handlers, c \in Chats, u \in Senders, x \in InboundTexts :
          EngineFails(h, c, u, x)
    \/ \E h \in Handlers : GenerateOk(h)
    \/ \E h \in Handlers : GenerateFails(h)
    \/ \E h \in Handlers : GenerateCancelled(h)
    \/ \E h \in Handlers : SendReplyOk(h)
    \/ \E h \in Handlers : SendReplyFails(h)
    \/ \E h \in Handlers : SendCommandOk(h)
    \/ \E h \in Handlers : SendCommandFails(h)
    \/ \E h \in Handlers : ReactionOk(h)
    \/ \E h \in Handlers : ReactionFails(h)

AnswerSpec == Init /\ [][AnswerNext]_vars

(***************************************************************************)
(* The webhook endpoint with or without a configured secret: requests with *)
(* any X-Telegram-Bot-Api-Secret-Token header, carrying a message, another *)
(* kind of update or a body that is no update.  The calls to Telegram and  *)
(* to the backend succeed.                                                 *)
(***************************************************************************)
WebhookMaxRequests == 3   \* requests to the endpoint in one run

\* request.headers.get("X-Telegram-Bot-Api-Secret-Token") of a request without the header
MISSING_HEADER == ""
WebhookSecrets == {NO_SECRET, "test_secret"}
WebhookHeaders == {MISSING_HEADER, "wrong_secret", "test_secret"}
WebhookBodies == {"invalid", "other_update"}


\* A secret check that lets every request through.
invalid_webhook_secret_never(S, header) == FALSE

\* "if settings.telegram_webhook_secret: ... if webhook_secret != settings.telegram_webhook_secret"
invalid_webhook_secret(S, header) ==
    /\ S.telegram_webhook_secret # NO_SECRET
    /\ header # S.telegram_webhook_secret

WebhookInit ==
    /\ now = 0
    /\ message_store = NewStore(WindowSizeBound, MaxChatsBound)
    /\ decision_engine = NewEngine(0)
    /\ handlers = [h \in Handlers |-> IdleHandler]
    /\ next_message_id = 1
    /\ inbound = 0
    /\ ticks = 0
    /\ failures = 0
    /\ last_decision = NoDecision
    /\ eval_count = 0
    /\ reply_decisions = 0
    /\ appended = [c \in Chats |-> <<>>]
    /\ created_len = [c \in Chats |-> 0]
    /\ reply_sent_at = [c \in Chats |-> -1]
    /\ fate = NoFate
    /\ last_call = NoCall
    /\ touched = <<>>
    /\ settings \in {NewSettings(secret) : secret \in WebhookSecrets}

\* The request with its header and the status it is answered with: 200 is returned
\* once process_update has returned.
WebhookAnswer(header, status) ==
    [Call("handle_telegram_webhook", 0, 0) EXCEPT !.header = header, !.status = status]

\* raise HTTPException(status_code=...) before process_update is reached, or an
\* update that process_update ignores.
NotProcessed(header, status) ==
    /\ last_call' = WebhookAnswer(header, status)
    /\ UNCHANGED <<now, message_store, decision_engine, handlers, next_message_id, inbound,
                   ticks, failures, last_decision, eval_count, reply_decisions, appended,
                   created_len, reply_sent_at, fate, touched, settings>>

\* handle_telegram_webhook for an update with a message that has no text
WebhookNoText(h, header, chat, user) ==
    /\ last_call.seq < WebhookMaxRequests
    /\ IF invalid_webhook_secret(settings, header)
       THEN NotProcessed(header, HTTP_FORBIDDEN)
       ELSE /\ ProcessNoText(h, chat, user)
            /\ last_call' = WebhookAnswer(header, HTTP_OK)

\* handle_telegram_webhook for an update with a message that is a command
WebhookCommand(h, header, chat, user, text) ==
    /\ last_call.seq < WebhookMaxRequests
    /\ IF invalid_webhook_secret(settings, header)
       THEN NotProcessed(header, HTTP_FORBIDDEN)
       ELSE /\ ProcessCommand(h, chat, user, text)
            /\ last_call' = WebhookAnswer(header, HTTP_OK)

\* handle_telegram_webhook for an update with any other message
WebhookMessage(h, header, chat, user, text, reply, draw) ==
    /\ last_call.seq < WebhookMaxRequests
    /\ IF invalid_webhook_secret(settings, header)
       THEN NotProcessed(header, HTTP_FORBIDDEN)
       ELSE /\ ProcessMessage(h, chat, user, text, reply, draw)
            /\ last_call' = WebhookAnswer(header, HTTP_OK)

\* handle_telegram_webhook for a body that is no update (400) and for an update that
\* has neither a message nor an edited message (ignored by process_update).
WebhookNoMessage(header, body) ==
    /\ last_call.seq < WebhookMaxRequests
    /\ IF invalid_webhook_secret(settings, header)
       THEN NotProcessed(header, HTTP_FORBIDDEN)
       ELSE NotProcessed(header, IF body = "invalid" THEN HTTP_BAD_REQUEST ELSE HTTP_OK)

WebhookNext ==
    \/ \E d \in TickSteps : Tick(d)
    \/ \E h \in Handlers, k \in WebhookHeaders, c \in Chats, u \in Senders :
          WebhookNoText(h, k, c, u)
    \/ \E h \in Handlers, k \in WebhookHeaders, c \in Chats, u \in Senders, x \in InboundTexts :
          WebhookCommand(h, k, c, u, x)
    \/ \E h \in Handlers, k \in WebhookHeaders, c \in Chats, u \in Senders, x \in InboundTexts,
          draw \in Draws :
          \E r \in ReplyChoices(c) : WebhookMessage(h, k, c, u, x, r, draw)
    \/ \E k \in WebhookHeaders, b \in WebhookBodies : WebhookNoMessage(k, b)
    \/ \E h \in Handlers : GenerateOk(h)
    \/ \E h \in Handlers : SendReplyOk(h)
    \/ \E h \in Handlers : SendCommandOk(h)
    \/ \E h \in Handlers : ReactionOk(h)

WebhookSpec == WebhookInit /\ [][WebhookNext]_vars

(***************************************************************************)
(* The engine used on its own: messages are stored and handed to           *)
(* should_respond one after the other, the bot's messages are stored by    *)
(* send_message, and update_settings changes the engine's settings.        *)
(***************************************************************************)
EngineTexts == {TEXT_PLAIN, TEXT_MENTION}

Settings == {<<"reply_target_ratio", 0>>, <<"reply_target_ratio", 100>>,
             <<"topic_heat_threshold", 20>>}

\* message_store.add_message(message); decision_engine.should_respond(chat_id, message)
Evaluate(chat, user, text, reply, draw) ==
    /\ next_message_id <= MaxMessages
    /\ InUse(chat)
    /\ LET Decided(m, S1, sr) ==
            /\ message_store' = sr.store
            /\ decision_engine' = sr.engine
            /\ last_decision' = Observed(S1, sr, chat)
            /\ appended' = LogAppend(appended, m)
            /\ created_len' = LogCreated(message_store, created_len, m)
            /\ eval_count' = SinceReset(decision_engine, sr.engine, eval_count) + 1
            /\ reply_decisions' = SinceReset(decision_engine, sr.engine, reply_decisions)
                                    + (IF sr.decision.action = "reply" THEN 1 ELSE 0)
           Stored(m, S1) ==
            Decided(m, S1, should_respond(S1, decision_engine, chat, m, now, draw))
           Store(m) == Stored(m, add_message(message_store, m, now))
       IN Store(StoredMessage(next_message_id, chat, user, text, now, FALSE, reply))
    /\ next_message_id' = next_message_id + 1
    /\ inbound' = inbound + 1
    /\ UNCHANGED <<settings, last_call, touched, now, handlers, ticks, failures, reply_sent_at, fate>>

\* send_message(chat_id, text), from "sent_message = await bot.send_message" on
BotSends(chat) ==
    /\ next_message_id <= MaxMessages
    /\ InUse(chat)
    /\ LET m == StoredMessage(next_message_id, chat, 0, GENERATED_TEXT, now, TRUE, 0)
       IN /\ message_store' = add_message(message_store, m, now)
          /\ appended' = LogAppend(appended, m)
          /\ created_len' = LogCreated(message_store, created_len, m)
    /\ next_message_id' = next_message_id + 1
    /\ UNCHANGED <<settings, last_call, touched, now, decision_engine, handlers, inbound, ticks, failures, last_decision,
                   eval_count, reply_decisions, reply_sent_at, fate>>

\* decision_engine.update_settings(key=value)
Configure(key, value) ==
    /\ decision_engine' = update_settings(decision_engine, key, value)
    /\ decision_engine' # decision_engine
    /\ UNCHANGED <<settings, last_call, touched, now, message_store, handlers, next_message_id, inbound, ticks, failures,
                   last_decision, eval_count, reply_decisions, appended, created_len,
                   reply_sent_at, fate>>

EngineNext ==
    \/ \E d \in TickSteps : Tick(d)
    \/ \E c \in Chats, u \in Users, x \in EngineTexts, draw \in Draws :
          \E r \in ReplyChoices(c) : Evaluate(c, u, x, r, draw)
    \/ \E c \in Chats : BotSends(c)
    \/ \E kv \in Settings : Configure(kv[1], kv[2])

EngineSpec == Init /\ [][EngineNext]_vars

(***************************************************************************)
(* The pipeline with an engine whose topic_heat_threshold may be lowered   *)
(* (update_settings) and with every call to Telegram and to the backend    *)
(* succeeding: the runs in which a hot topic is reacted to.                *)
(***************************************************************************)
LOW_HEAT_THRESHOLD == 10      \* update_settings(topic_heat_threshold=0.1)

ReactNext ==
    \/ \E d \in TickSteps : Tick(d)
    \/ \E h \in Handlers, c \in Chats, u \in Senders, x \in EngineTexts, draw \in Draws :
          \E r \in ReplyChoices(c) : ReceiveMessage(h, c, u, x, r, draw)
    \/ \E h \in Handlers : GenerateOk(h)
    \/ \E h \in Handlers : SendReplyOk(h)
    \/ \E h \in Handlers : ReactionOk(h)
    \/ Configure("topic_heat_threshold", LOW_HEAT_THRESHOLD)

ReactSpec == Init /\ [][ReactNext]_vars

(***************************************************************************)
(* The engine and the command handler called directly: should_respond,     *)
(* get_stats and handle_command, by any user, the clock advancing between  *)
(* the calls.                                                               *)
(***************************************************************************)
ControlMaxCalls == 2      \* get_stats and handle_command calls in one run

CommandTexts ==
    {TEXT_SETQUOTA_0, TEXT_SETQUOTA_50, TEXT_SETQUOTA_100, TEXT_SETQUOTA_150,
     TEXT_SETQUOTA_NEG, TEXT_SETQUOTA_WORD, TEXT_SETQUOTA_SHOW, TEXT_SETQUOTAS,
     TEXT_SETGAP_4, TEXT_SETGAP_5, TEXT_SETGAP_300, TEXT_SETGAP_BAD, TEXT_SETGAP_FLOAT,
     TEXT_STATS, TEXT_STATUS, TEXT_HELP}

\* decision_engine.get_stats()
GetStats ==
    /\ last_call.seq < ControlMaxCalls
    /\ LET Returned(st) ==
            /\ decision_engine' = st.engine
            /\ last_call' = [Call("get_stats", 0, 0) EXCEPT !.stats = st.stats]
            /\ eval_count' = SinceReset(decision_engine, st.engine, eval_count)
            /\ reply_decisions' = SinceReset(decision_engine, st.engine, reply_decisions)
       IN Returned(get_stats(decision_engine, now))
    /\ UNCHANGED <<settings, now, message_store, handlers, next_message_id, inbound, ticks,
                   failures, last_decision, appended, created_len, reply_sent_at, fate,
                   touched>>

\* command_handler.handle_command(text, user_id, chat_id)
Command(chat, user, text) ==
    /\ last_call.seq < ControlMaxCalls
    /\ InUse(chat)
    /\ LET Returned(hc) ==
            /\ message_store' = hc.store
            /\ decision_engine' = hc.engine
            /\ last_call' = [Call("handle_command", chat, user) EXCEPT
                                !.text = text, !.string = hc.response]
            /\ eval_count' = SinceReset(decision_engine, hc.engine, eval_count)
            /\ reply_decisions' = SinceReset(decision_engine, hc.engine, reply_decisions)
       IN Returned(handle_command(message_store, decision_engine, text, user, chat, now))
    /\ UNCHANGED <<settings, now, handlers, next_message_id, inbound, ticks, failures,
                   last_decision, appended, created_len, reply_sent_at, fate, touched>>

ControlNext ==
    \/ \E d \in TickSteps : Tick(d)
    \/ \E c \in Chats, u \in Senders, x \in EngineTexts, draw \in Draws :
          \E r \in ReplyChoices(c) : Evaluate(c, u, x, r, draw)
    \/ GetStats
    \/ \E c \in Chats, u \in Users, x \in CommandTexts : Command(c, u, x)

ControlSpec == Init /\ [][ControlNext]_vars

(***************************************************************************)
(* update_settings called directly with any keyword: the five settings,    *)
(* the names of the engine's other attributes, and names it does not have. *)
(***************************************************************************)
SettingsMaxCalls == 2     \* update_settings calls in one run

AnySettings ==
    {<<"bot_username", "olga">>, <<"reply_target_ratio", 100>>, <<"gap_min_seconds", 5>>,
     <<"topic_heat_threshold", 20>>, <<"reaction_probability", 100>>,
     <<"_message_count", 5>>, <<"_reply_count", 5>>, <<"_last_reset_time", 5>>,
     <<"_reset_interval", 5>>, <<"message_count", 5>>, <<"unknown_setting", 5>>}

\* decision_engine.update_settings(key=value)
UpdateSettings(key, value) ==
    /\ last_call.seq < SettingsMaxCalls
    /\ decision_engine' = update_settings(decision_engine, key, value)
    /\ last_call' = [Call("update_settings", 0, 0) EXCEPT !.text = <<key>>]
    /\ UNCHANGED <<settings, now, message_store, handlers, next_message_id, inbound, ticks,
                   failures, last_decision, eval_count, reply_decisions, appended,
                   created_len, reply_sent_at, fate, touched>>

SettingsNext ==
    \/ \E d \in TickSteps : Tick(d)
    \/ \E c \in Chats, u \in Senders, x \in EngineTexts, draw \in Draws :
          \E r \in ReplyChoices(c) : Evaluate(c, u, x, r, draw)
    \/ \E kv \in AnySettings : UpdateSettings(kv[1], kv[2])

SettingsSpec == Init /\ [][SettingsNext]_vars

(***************************************************************************)
(* The store used on its own, as SlidingWindowStore(window_size, max_chats) *)
(* with small sizes: any sequence of its public operations, the clock       *)
(* advancing between them.                                                  *)
(***************************************************************************)
StoreMaxMessages == 4     \* add_message calls in one run
StoreMaxTicks == 2        \* clock advances in one run
StoreNumChats == 3
StoreWindowSize == 2
StoreMaxChats == 2
StoreMaxLimit == 3        \* largest limit given to get_messages and get_recent_text
StoreMaxCalls == 4        \* calls of the store's operations in one run

StoreChats == 1..StoreNumChats
StoreTickSteps == {1, CLEANUP_INTERVAL_SECONDS}
StoreLimits == 0..StoreMaxLimit
StoreLimitsOrNone == StoreLimits \cup {NONE}
StoreSeconds == {1, CLEANUP_INTERVAL_SECONDS}
MessageKinds == {"user", "no_text", "bot"}

StoreInit ==
    /\ now = 0
    /\ message_store = NewStore(StoreWindowSize, StoreMaxChats)
    /\ decision_engine = NewEngine(0)
    /\ handlers = [h \in Handlers |-> IdleHandler]
    /\ next_message_id = 1
    /\ inbound = 0
    /\ ticks = 0
    /\ failures = 0
    /\ last_decision = NoDecision
    /\ eval_count = 0
    /\ reply_decisions = 0
    /\ appended = [c \in StoreChats |-> <<>>]
    /\ created_len = [c \in StoreChats |-> 0]
    /\ reply_sent_at = [c \in Chats |-> -1]
    /\ fate = NoFate
    /\ last_call = NoCall
    /\ touched = <<>>
    /\ settings = NewSettings(NO_SECRET)

\* The order of last touch after chat c is touched.
Touch(order, c) == Append(SelectSeq(order, LAMBDA x : x # c), c)

\* What get_messages does to the order of last touch: nothing for an unknown chat.
TouchKnown(c) ==
    IF HasChat(message_store.chat_windows, c) THEN Touch(touched, c) ELSE touched

\* The store's operations read and write nothing outside the store.
StoreOnly ==
    UNCHANGED <<settings, decision_engine, handlers, inbound, failures, last_decision,
                eval_count, reply_decisions, reply_sent_at, fate>>

StoreTick(d) ==
    /\ ticks < StoreMaxTicks
    /\ now' = now + d
    /\ ticks' = ticks + 1
    /\ StoreOnly
    /\ UNCHANGED <<message_store, next_message_id, appended, created_len, last_call, touched>>

\* message_store.add_message(StoredMessage(...)) with timestamp=datetime.now(); the
\* call is recorded with the chats it removed.
AddMessage(chat, kind) ==
    /\ next_message_id <= StoreMaxMessages
    /\ last_call.seq < StoreMaxCalls
    /\ IF chat = 1 THEN TRUE ELSE appended[chat - 1] # <<>>
    /\ LET m == StoredMessage(next_message_id, chat,
                              IF kind = "bot" THEN 0 ELSE 1,
                              CASE kind = "user" -> TEXT_PLAIN
                                [] kind = "no_text" -> TEXT_NONE
                                [] kind = "bot" -> GENERATED_TEXT,
                              now, kind = "bot", 0)
       IN /\ message_store' = add_message(message_store, m, now)
          /\ appended' = LogAppend(appended, m)
          /\ created_len' = LogCreated(message_store, created_len, m)
          /\ last_call' = [Call("add_message", chat, m.message_id) EXCEPT
                !.removed = ChatKeys(message_store.chat_windows)
                               \ ChatKeys(add_message(message_store, m, now).chat_windows)]
    /\ touched' = Touch(touched, chat)
    /\ next_message_id' = next_message_id + 1
    /\ StoreOnly
    /\ UNCHANGED <<now, ticks>>

\* message_store.get_messages(chat_id, limit), and get_messages(chat_id) as limit NONE
GetMessages(chat, limit) ==
    /\ last_call.seq < StoreMaxCalls
    /\ LET Returned(g) ==
            /\ message_store' = g.store
            /\ last_call' = [Call("get_messages", chat, limit) EXCEPT !.messages = g.result]
       IN Returned(get_messages(message_store, chat, limit, now))
    /\ touched' = TouchKnown(chat)
    /\ StoreOnly
    /\ UNCHANGED <<now, ticks, next_message_id, appended, created_len>>

\* message_store.get_recent_text(chat_id, limit)
GetRecentText(chat, limit) ==
    /\ last_call.seq < StoreMaxCalls
    /\ LET Returned(g) ==
            /\ message_store' = g.store
            /\ last_call' = [Call("get_recent_text", chat, limit) EXCEPT !.string = g.result]
       IN Returned(get_recent_text(message_store, chat, limit, now))
    /\ touched' = TouchKnown(chat)
    /\ StoreOnly
    /\ UNCHANGED <<now, ticks, next_message_id, appended, created_len>>

\* message_store.has_recent_bot_message(chat_id, seconds)
HasRecentBotMessage(chat, seconds) ==
    /\ last_call.seq < StoreMaxCalls
    /\ LET Returned(g) ==
            /\ message_store' = g.store
            /\ last_call' = [Call("has_recent_bot_message", chat, seconds) EXCEPT
                                !.found = g.result]
       IN Returned(has_recent_bot_message(message_store, chat, seconds, now))
    /\ touched' = TouchKnown(chat)
    /\ StoreOnly
    /\ UNCHANGED <<now, ticks, next_message_id, appended, created_len>>

\* message_store.clear_chat(chat_id)
ClearChat(chat) ==
    /\ last_call.seq < StoreMaxCalls
    /\ message_store' = clear_chat(message_store, chat)
    /\ last_call' = Call("clear_chat", chat, 0)
    /\ StoreOnly
    /\ UNCHANGED <<now, ticks, next_message_id, appended, created_len, touched>>

\* message_store.force_cleanup()
ForceCleanup ==
    /\ last_call.seq < StoreMaxCalls
    /\ LET Returned(g) ==
            /\ message_store' = g.store
            /\ last_call' = [Call("force_cleanup", 0, 0) EXCEPT !.report = g.result]
       IN Returned(force_cleanup(message_store, now))
    /\ StoreOnly
    /\ UNCHANGED <<now, ticks, next_message_id, appended, created_len, touched>>

StoreNext ==
    \/ \E d \in StoreTickSteps : StoreTick(d)
    \/ \E c \in StoreChats, k \in MessageKinds : AddMessage(c, k)
    \/ \E c \in StoreChats, n \in StoreLimitsOrNone : GetMessages(c, n)
    \/ \E c \in StoreChats, n \in StoreLimits : GetRecentText(c, n)
    \/ \E c \in StoreChats, sec \in StoreSeconds : HasRecentBotMessage(c, sec)
    \/ \E c \in StoreChats : ClearChat(c)
    \/ ForceCleanup

StoreSpec == StoreInit /\ [][StoreNext]_vars

(***************************************************************************)
(* The store receiving messages without end: add_message is called again   *)
(* and again while the clock advances.  The message ids start again at 1   *)
(* past the bound (the store never reads a message_id), which keeps the    *)
(* states finite; some chat receives a message again and again.            *)
(***************************************************************************)
\* message_store.add_message(StoredMessage(...)) with timestamp=datetime.now()
KeepAdding(chat) ==
    /\ LET m == StoredMessage(next_message_id, chat, 1, TEXT_PLAIN, now, FALSE, 0)
       IN message_store' = add_message(message_store, m, now)
    /\ next_message_id' = IF next_message_id < StoreMaxMessages
                          THEN next_message_id + 1 ELSE 1
    /\ StoreOnly
    /\ UNCHANGED <<now, ticks, appended, created_len, last_call, touched>>

CleanupNext ==
    \/ \E d \in StoreTickSteps : StoreTick(d)
    \/ \E c \in Chats : KeepAdding(c)

CleanupSpec ==
    StoreInit /\ [][CleanupNext]_vars /\ WF_vars(\E c \in Chats : KeepAdding(c))

(***************************************************************************)
(* The tone analyzer used on its own: analyze_tone applied to any batch of *)
(* short texts, by analyzers with the default and with smaller thresholds. *)
(***************************************************************************)
ToneMaxTextLen == 3       \* characters in one text
ToneMaxBatch == 2         \* texts in one batch

\* A space, the letter a, the ideograph U+4E2D and the emoji U+1F600.
ToneChars == {32, 97, 20013, 128512}

ToneTexts == UNION {[1..n -> ToneChars] : n \in 0..ToneMaxTextLen}

ToneBatches == UNION {[1..n -> ToneTexts] : n \in 0..ToneMaxBatch}

\* ToneAnalyzer() has the thresholds 0.02 and 18.0.
DEFAULT_HIGH_EMOJI_THRESHOLD == [num |-> 2, den |-> 100]
DEFAULT_FORMAL_LENGTH_THRESHOLD == [num |-> 18, den |-> 1]

ToneAnalyzers ==
    {ToneAnalyzer(e, f) :
        e \in {DEFAULT_HIGH_EMOJI_THRESHOLD, [num |-> 1, den |-> 2]},
        f \in {DEFAULT_FORMAL_LENGTH_THRESHOLD, [num |-> 3, den |-> 2], [num |-> 1, den |-> 1]}}

ToneInit ==
    /\ now = 0
    /\ message_store = NewStore(WindowSizeBound, MaxChatsBound)
    /\ decision_engine = NewEngine(0)
    /\ handlers = [h \in Handlers |-> IdleHandler]
    /\ next_message_id = 1
    /\ inbound = 0
    /\ ticks = 0
    /\ failures = 0
    /\ last_decision = NoDecision
    /\ eval_count = 0
    /\ reply_decisions = 0
    /\ appended = [c \in Chats |-> <<>>]
    /\ created_len = [c \in Chats |-> 0]
    /\ reply_sent_at = [c \in Chats |-> -1]
    /\ fate = NoFate
    /\ last_call \in {[NoCall EXCEPT !.analyzer = a, !.batch = b] :
                        a \in ToneAnalyzers, b \in ToneBatches}
    /\ touched = <<>>
    /\ settings = NewSettings(NO_SECRET)

\* analyzer.analyze_tone(messages)
AnalyzeTone ==
    /\ last_call.op = "none"
    /\ last_call' = [last_call EXCEPT
                        !.seq = 1, !.op = "analyze_tone",
                        !.hints = analyze_tone(last_call.analyzer, last_call.batch)]
    /\ UNCHANGED <<settings, now, message_store, decision_engine, handlers, next_message_id,
                   inbound, ticks, failures, last_decision, eval_count, reply_decisions,
                   appended, created_len, reply_sent_at, fate, touched>>

ToneNext == AnalyzeTone

ToneSpec == ToneInit /\ [][ToneNext]_vars

(***************************************************************************)
(* The responder used on its own: generate_response against a backend that *)
(* fails some calls and then answers, for any language and tone.           *)
(***************************************************************************)
RespMaxContentLen == 3    \* characters of a completion's content
RespMaxErrors == 4        \* calls the backend fails before it answers

\* A space, a double quote and a letter.
RespChars == {" ", "\"", "a"}

RECURSIVE StringsUpTo(_)
StringsUpTo(n) ==
    IF n = 0 THEN {""}
    ELSE {""} \cup {str \o ch : str \in StringsUpTo(n - 1), ch \in RespChars}

RespBackends ==
    {[errors |-> k, then |-> o] :
        k \in 0..RespMaxErrors,
        o \in {NoChoices} \cup {Completion(c) : c \in StringsUpTo(RespMaxContentLen)}}

RespLanguages == {"en", "es", "ru", "fr", "de"}

RespTones ==
    {NEUTRAL_TONE,
     ToneHints([num |-> 0, den |-> 1], "formal", [num |-> 20, den |-> 1], FALSE)}

ResponderInit ==
    /\ now = 0
    /\ message_store = NewStore(WindowSizeBound, MaxChatsBound)
    /\ decision_engine = NewEngine(0)
    /\ handlers = [h \in Handlers |-> IdleHandler]
    /\ next_message_id = 1
    /\ inbound = 0
    /\ ticks = 0
    /\ failures = 0
    /\ last_decision = NoDecision
    /\ eval_count = 0
    /\ reply_decisions = 0
    /\ appended = [c \in Chats |-> <<>>]
    /\ created_len = [c \in Chats |-> 0]
    /\ reply_sent_at = [c \in Chats |-> -1]
    /\ fate = NoFate
    /\ last_call \in {[NoCall EXCEPT !.backend = b, !.language = l, !.hints = t, !.arg = k] :
                        b \in RespBackends, l \in RespLanguages, t \in RespTones,
                        k \in 1..NUM_FALLBACKS}
    /\ touched = <<>>
    /\ settings = NewSettings(NO_SECRET)

\* await gpt_responder.generate_response(message, recent_messages, language, tone_hints)
GenerateResponse ==
    /\ last_call.op = "none"
    /\ LET Returned(g) ==
            last_call' = [last_call EXCEPT
                             !.seq = 1, !.op = "generate_response",
                             !.attempts = g.attempts, !.response = g.text,
                             !.requests = g.requests]
       IN Returned(generate_response(last_call.backend, last_call.language,
                                     last_call.hints, last_call.arg))
    /\ UNCHANGED <<settings, now, message_store, decision_engine, handlers, next_message_id,
                   inbound, ticks, failures, last_decision, eval_count, reply_decisions,
                   appended, created_len, reply_sent_at, fate, touched>>

ResponderNext == GenerateResponse

ResponderSpec == ResponderInit /\ [][ResponderNext]_vars

(***************************************************************************)
(* should_respond called directly, as its signature allows: with a message *)
(* that need not be in the store, whose text may be None, for a chat the   *)
(* store may not know, replying to any message id or to none.              *)
(***************************************************************************)
DirectMaxCalls == 3       \* add_message and should_respond calls in one run

DirectTexts == {TEXT_NONE, TEXT_PLAIN, TEXT_MENTION}
DirectReplies == 0..2

\* decision_engine.should_respond(chat_id, message)
ShouldRespond(chat, user, text, reply, draw) ==
    /\ last_call.seq < DirectMaxCalls
    /\ LET Returned(sr) ==
            /\ message_store' = sr.store
            /\ decision_engine' = sr.engine
            /\ last_decision' = Observed(message_store, sr, chat)
            /\ last_call' = [Call("should_respond", chat, reply) EXCEPT !.text = text]
            /\ eval_count' = SinceReset(decision_engine, sr.engine, eval_count) + 1
            /\ reply_decisions' = SinceReset(decision_engine, sr.engine, reply_decisions)
                                    + (IF sr.decision.action = "reply" THEN 1 ELSE 0)
           Given(m) ==
            Returned(should_respond(message_store, decision_engine, chat, m, now, draw))
       IN Given(StoredMessage(next_message_id, chat, user, text, now, FALSE, reply))
    /\ next_message_id' = next_message_id + 1
    /\ UNCHANGED <<settings, now, handlers, inbound, ticks, failures, appended, created_len,
                   reply_sent_at, fate, touched>>

DirectNext ==
    \/ \E d \in TickSteps : Tick(d)
    \/ \E c \in Chats, k \in MessageKinds : last_call.seq < DirectMaxCalls /\ AddMessage(c, k)
    \/ \E c \in Chats, u \in Senders, x \in DirectTexts, r \in DirectReplies, draw \in Draws :
          ShouldRespond(c, u, x, r, draw)

DirectSpec == Init /\ [][DirectNext]_vars

(***************************************************************************)
(* The engine with a store that holds two chats at once                    *)
(* (SlidingWindowStore(max_chats=2)): messages are evaluated and bot       *)
(* messages stored in either chat.                                         *)
(***************************************************************************)
PacingMaxChats == 2       \* max_chats given to SlidingWindowStore

PacingInit ==
    /\ now = 0
    /\ message_store = NewStore(WindowSizeBound, PacingMaxChats)
    /\ decision_engine = NewEngine(0)
    /\ handlers = [h \in Handlers |-> IdleHandler]
    /\ next_message_id = 1
    /\ inbound = 0
    /\ ticks = 0
    /\ failures = 0
    /\ last_decision = NoDecision
    /\ eval_count = 0
    /\ reply_decisions = 0
    /\ appended = [c \in Chats |-> <<>>]
    /\ created_len = [c \in Chats |-> 0]
    /\ reply_sent_at = [c \in Chats |-> -1]
    /\ fate = NoFate
    /\ last_call = NoCall
    /\ touched = <<>>
    /\ settings = NewSettings(NO_SECRET)

PacingNext ==
    \/ \E d \in TickSteps : Tick(d)
    \/ \E c \in Chats, u \in Senders, x \in EngineTexts, draw \in Draws :
          \E r \in ReplyChoices(c) : Evaluate(c, u, x, r, draw)
    \/ \E c \in Chats : BotSends(c)

PacingSpec == PacingInit /\ [][PacingNext]_vars

(***************************************************************************)
(* Engines constructed with a reply_target_ratio and a                     *)
(* topic_heat_threshold, given only messages that neither mention the bot  *)
(* nor reply to it, within one hour.                                       *)
(***************************************************************************)
QuotaMaxMessages == 5     \* messages and bot messages in one run

QuotaRatios == {DEFAULT_REPLY_TARGET_RATIO, 50}

QuotaThresholds == {DEFAULT_TOPIC_HEAT_THRESHOLD, LOW_HEAT_THRESHOLD}

\* DecisionEngine(reply_target_ratio=r, topic_heat_threshold=h)
QuotaInit ==
    /\ now = 0
    /\ message_store = NewStore(WindowSizeBound, MaxChatsBound)
    /\ \E r \in QuotaRatios, h \in QuotaThresholds :
          decision_engine = [NewEngine(0) EXCEPT !.reply_target_ratio = r,
                                                 !.topic_heat_threshold = h]
    /\ handlers = [h \in Handlers |-> IdleHandler]
    /\ next_message_id = 1
    /\ inbound = 0
    /\ ticks = 0
    /\ failures = 0
    /\ last_decision = NoDecision
    /\ eval_count = 0
    /\ reply_decisions = 0
    /\ appended = [c \in Chats |-> <<>>]
    /\ created_len = [c \in Chats |-> 0]
    /\ reply_sent_at = [c \in Chats |-> -1]
    /\ fate = NoFate
    /\ last_call = NoCall
    /\ touched = <<>>
    /\ settings = NewSettings(NO_SECRET)

\* message_store.add_message(message); decision_engine.should_respond(chat_id, message)
\* for a message that is neither a mention nor a reply
EvaluateUnsolicited(chat, user, draw) ==
    /\ next_message_id <= QuotaMaxMessages
    /\ InUse(chat)
    /\ LET Decided(m, S1, sr) ==
            /\ message_store' = sr.store
            /\ decision_engine' = sr.engine
            /\ last_decision' = Observed(S1, sr, chat)
            /\ appended' = LogAppend(appended, m)
            /\ created_len' = LogCreated(message_store, created_len, m)
            /\ eval_count' = SinceReset(decision_engine, sr.engine, eval_count) + 1
            /\ reply_decisions' = SinceReset(decision_engine, sr.engine, reply_decisions)
                                    + (IF sr.decision.action = "reply" THEN 1 ELSE 0)
           Stored(m, S1) ==
            Decided(m, S1, should_respond(S1, decision_engine, chat, m, now, draw))
           Store(m) == Stored(m, add_message(message_store, m, now))
       IN Store(StoredMessage(next_message_id, chat, user, TEXT_PLAIN, now, FALSE, 0))
    /\ next_message_id' = next_message_id + 1
    /\ inbound' = inbound + 1
    /\ UNCHANGED <<settings, last_call, touched, now, handlers, ticks, failures, reply_sent_at, fate>>

QuotaNext ==
    \/ Tick(DEFAULT_GAP_MIN_SECONDS)
    \/ \E c \in Chats, u \in Senders, draw \in Draws : EvaluateUnsolicited(c, u, draw)
    \/ \E c \in Chats : BotSends(c)

QuotaSpec == QuotaInit /\ [][QuotaNext]_vars

(***************************************************************************)
(* _calculate_topic_heat used on its own, as the tests call it: applied to *)
(* lists of up to 22 messages, some of them older than five minutes, by    *)
(* one to four users, some of them replies.                                *)
(***************************************************************************)
HeatMaxOld == 2           \* messages older than the active window in one list
HeatMaxActive == 20       \* messages within the active window in one list
HeatMaxUsers == 4         \* users writing the messages of one list

\* The times of the call.
HeatTimes == {ACTIVE_WINDOW_SECONDS + 1, 2 * ACTIVE_WINDOW_SECONDS}

\* A list of old messages older than five minutes at t followed by n messages within
\* them (every other one exactly five minutes old), written by u users in turn, the
\* first r of them replies.
HeatMessages(old, n, u, r, t) ==
    [i \in 1..(old + n) |->
        IF i <= old
        THEN StoredMessage(i, 1, 1, TEXT_PLAIN, t - ACTIVE_WINDOW_SECONDS - 1, FALSE, 0)
        ELSE StoredMessage(i, 1, ((i - old - 1) % u) + 1, TEXT_PLAIN,
                           IF (i - old) % 2 = 1 THEN t - ACTIVE_WINDOW_SECONDS ELSE t,
                           FALSE, IF i - old <= r THEN 1 ELSE 0)]

HeatInit ==
    /\ now \in HeatTimes
    /\ message_store = NewStore(WindowSizeBound, MaxChatsBound)
    /\ decision_engine = NewEngine(0)
    /\ handlers = [h \in Handlers |-> IdleHandler]
    /\ next_message_id = 1
    /\ inbound = 0
    /\ ticks = 0
    /\ failures = 0
    /\ last_decision = NoDecision
    /\ eval_count = 0
    /\ reply_decisions = 0
    /\ appended = [c \in Chats |-> <<>>]
    /\ created_len = [c \in Chats |-> 0]
    /\ reply_sent_at = [c \in Chats |-> -1]
    /\ fate = NoFate
    /\ \E old \in 0..HeatMaxOld, n \in 0..HeatMaxActive, u \in 1..HeatMaxUsers :
          \E r \in {0, n \div 2, n} :
              last_call = [NoCall EXCEPT !.messages = HeatMessages(old, n, u, r, now)]
    /\ touched = <<>>
    /\ settings = NewSettings(NO_SECRET)

\* self._calculate_topic_heat(recent_messages)
CalculateTopicHeat ==
    /\ last_call.op = "none"
    /\ last_call' = [last_call EXCEPT
                        !.seq = 1, !.op = "calculate_topic_heat",
                        !.heat = calculate_topic_heat(last_call.messages, now)]
    /\ UNCHANGED <<settings, now, message_store, decision_engine, handlers, next_message_id,
                   inbound, ticks, failures, last_decision, eval_count, reply_decisions,
                   appended, created_len, reply_sent_at, fate, touched>>

HeatNext == CalculateTopicHeat

HeatSpec == HeatInit /\ [][HeatNext]_vars

(***************************************************************************)
(* The reaction handler (reactions.py).  An emoji is written as the code   *)
(* points it is made of.                                                   *)
(***************************************************************************)
positive_reactions ==
    <<"<U+1F44D>", "<U+2764><U+FE0F>", "<U+1F60A>", "<U+1F389>", "<U+2728>", "<U+1F525>",
      "<U+1F4AF>">>
negative_reactions == <<"<U+1F44E>", "<U+1F614>", "<U+1F914>", "<U+1F62C>", "<U+1F605>">>
neutral_reactions == <<"<U+1F440>", "<U+1F937>", "<U+1F643>", "<U+1F610>", "<U+1F916>">>
funny_reactions ==
    <<"<U+1F602>", "<U+1F923>", "<U+1F604>", "<U+1F606>", "<U+1F92D>", "<U+1F639>">>
thinking_reactions == <<"<U+1F914>", "<U+1F4AD>", "<U+1F9E0>", "<U+1F4A1>", "<U+1F50D>">>
support_reactions ==
    <<"<U+2764><U+FE0F>", "<U+1F917>", "<U+1F4AA>", "<U+1F44F>", "<U+1F64C>", "<U+270A>">>
formal_reactions ==
    <<"<U+1F44D>", "<U+1F44C>", "<U+2705>", "<U+1F4BC>", "<U+1F4CA>", "<U+1F4C8>">>
casual_reactions ==
    <<"<U+1F60E>", "<U+1F918>", "<U+1F64C>", "<U+1F525>", "<U+1F4AF>", "<U+1F602>">>
casual_to_remove == <<"<U+1F918>", "<U+1F525>", "<U+1F4AF>", "<U+1F602>", "<U+1F923>">>
expressive_reactions ==
    <<"<U+1F389>", "<U+2728>", "<U+1F525>", "<U+1F4AF>", "<U+1F64C>", "<U+1F918>",
      "<U+1F60E>">>
restrained_reactions == <<"<U+1F44D>", "<U+1F44C>", "<U+2705>", "<U+1F4BC>">>

REACTION_LANGUAGES == {"ru", "es", "fr", "de", "it", "ja", "zh"}

language_reactions(language) ==
    CASE language = "ru" -> <<"<U+1F1F7><U+1F1FA>", "<U+1F494>", "<U+1F943>", "<U+1F43B>">>
      [] language = "es" -> <<"<U+1F1EA><U+1F1F8>", "<U+1F483>", "<U+1F336><U+FE0F>", "<U+26BD>">>
      [] language = "fr" -> <<"<U+1F1EB><U+1F1F7>", "<U+1F956>", "<U+1F377>", "<U+1F3A8>">>
      [] language = "de" -> <<"<U+1F1E9><U+1F1EA>", "<U+1F37A>", "<U+26BD>", "<U+1F968>">>
      [] language = "it" -> <<"<U+1F1EE><U+1F1F9>", "<U+1F355>", "<U+1F35D>", "<U+1F90C>">>
      [] language = "ja" -> <<"<U+1F1EF><U+1F1F5>", "<U+1F35C>", "<U+1F38C>", "<U+1F338>">>
      [] language = "zh" -> <<"<U+1F1E8><U+1F1F3>", "<U+1F962>", "<U+1F409>", "<U+1F38B>">>

positive_keywords ==
    {"good", "great", "awesome", "amazing", "perfect", "love", "happy", "thanks", "thank",
     "excellent", "wonderful", "fantastic", "brilliant"}
negative_keywords ==
    {"bad", "terrible", "awful", "hate", "sad", "angry", "frustrated", "disappointed",
     "wrong", "problem", "issue", "error", "fail"}
funny_keywords ==
    {"lol", "haha", "funny", "joke", "laugh", "humor", "hilarious", "comedy", "meme",
     "rofl", "lmao", "<U+1F602>", "<U+1F923>"}
thinking_keywords ==
    {"think", "wonder", "question", "why", "how", "what", "hmm", "curious", "consider",
     "analyze", "understand", "explain"}

\* str.lower() of one character (of the letters the texts of the runs are written in).
LowerChar(ch) ==
    CASE ch = "A" -> "a" [] ch = "B" -> "b" [] ch = "D" -> "d" [] ch = "G" -> "g"
      [] ch = "H" -> "h" [] ch = "L" -> "l" [] ch = "O" -> "o" [] ch = "W" -> "w"
      [] ch = "Y" -> "y" [] OTHER -> ch

RECURSIVE str_lower(_)
str_lower(str) ==
    IF str = "" THEN ""
    ELSE LowerChar(SubSeq(str, 1, 1)) \o str_lower(SubSeq(str, 2, Len(str)))

\* keyword in text
Contains(text, keyword) ==
    \E i \in 1..(Len(text) - Len(keyword) + 1) :
        SubSeq(text, i, i + Len(keyword) - 1) = keyword

\* r in reactions
InList(reactions, r) == \E i \in 1..Len(reactions) : reactions[i] = r

get_base_reactions(message_text, context) ==
    IF message_text = "" THEN neutral_reactions
    ELSE LET text_lower == str_lower(message_text)
             AnyOf(keywords) == \E keyword \in keywords : Contains(text_lower, keyword)
             found == IF AnyOf(funny_keywords) THEN "funny"
                      ELSE IF AnyOf(positive_keywords) THEN "positive"
                      ELSE IF AnyOf(negative_keywords) THEN "negative"
                      ELSE IF AnyOf(thinking_keywords) THEN "thinking"
                      ELSE context
         IN CASE found = "positive" -> positive_reactions
              [] found = "negative" -> negative_reactions
              [] found = "funny" -> funny_reactions
              [] found = "thinking" -> thinking_reactions
              [] found = "support" -> support_reactions
              [] OTHER -> neutral_reactions

\* The list without the later occurrences of its elements.
RECURSIVE Unique(_)
Unique(reactions) ==
    IF reactions = <<>> THEN <<>>
    ELSE LET front == Unique(SubSeq(reactions, 1, Len(reactions) - 1))
             r == reactions[Len(reactions)]
         IN IF InList(front, r) THEN front ELSE Append(front, r)

adjust_for_tone(reactions, tone_hints) ==
    LET toned == IF tone_hints.formality_level = "formal"
                 THEN SelectSeq(reactions \o formal_reactions,
                                LAMBDA r : ~InList(casual_to_remove, r))
                 ELSE reactions \o casual_reactions
        extended == IF tone_hints.has_high_emoji
                    THEN toned \o expressive_reactions
                    ELSE toned \o restrained_reactions
    IN Unique(extended)

\* choose_reaction: extend is whether random.random() < 0.2, and choice the place in
\* the pool that random.choice takes.  [adjusted, pool, reaction]
choose_reaction(message_text, tone_hints, language, context, extend, choice) ==
    LET adjusted == adjust_for_tone(get_base_reactions(message_text, context), tone_hints)
        pool == IF language \in REACTION_LANGUAGES /\ extend
                THEN adjusted \o language_reactions(language)
                ELSE adjusted
    IN [adjusted |-> adjusted, pool |-> pool, reaction |-> pool[choice]]

(***************************************************************************)
(* The reaction handler used on its own: choose_reaction for a message     *)
(* text (or none), a context, a language and tone hints of either          *)
(* formality, with and without many emoji.                                 *)
(***************************************************************************)
ReactionMaxPool == 24     \* reactions in a pool, at most

ReactionTexts ==
    {"", "nice weather", "LOL thanks", "Good day", "this is bad", "why", "ok <U+1F923>"}

ReactionContexts == {"neutral", "positive", "negative", "funny", "thinking", "support"}

ReactionLanguages == {"en", "ru"}

ReactionTones ==
    {ToneHints([num |-> 0, den |-> 1], level, [num |-> 0, den |-> 1], emoji) :
        level \in {"formal", "casual"}, emoji \in BOOLEAN}

ReactionInit ==
    /\ now = 0
    /\ message_store = NewStore(WindowSizeBound, MaxChatsBound)
    /\ decision_engine = NewEngine(0)
    /\ handlers = [h \in Handlers |-> IdleHandler]
    /\ next_message_id = 1
    /\ inbound = 0
    /\ ticks = 0
    /\ failures = 0
    /\ last_decision = NoDecision
    /\ eval_count = 0
    /\ reply_decisions = 0
    /\ appended = [c \in Chats |-> <<>>]
    /\ created_len = [c \in Chats |-> 0]
    /\ reply_sent_at = [c \in Chats |-> -1]
    /\ fate = NoFate
    /\ last_call \in {[NoCall EXCEPT !.message_text = x, !.context = c, !.language = l,
                                     !.hints = t] :
                        x \in ReactionTexts, c \in ReactionContexts,
                        l \in ReactionLanguages, t \in ReactionTones}
    /\ touched = <<>>
    /\ settings = NewSettings(NO_SECRET)

\* reaction_handler.choose_reaction(message_text, tone_hints, language, context)
ChooseReaction(extend, choice) ==
    /\ last_call.op = "none"
    /\ choice <= Len(choose_reaction(last_call.message_text, last_call.hints,
                                     last_call.language, last_call.context, extend, 1).pool)
    /\ LET Chosen(cr) ==
            last_call' = [last_call EXCEPT
                             !.seq = 1, !.op = "choose_reaction", !.arg = choice,
                             !.pool = cr.adjusted, !.reaction = cr.reaction]
       IN Chosen(choose_reaction(last_call.message_text, last_call.hints,
                                 last_call.language, last_call.context, extend, choice))
    /\ UNCHANGED <<settings, now, message_store, decision_engine, handlers, next_message_id,
                   inbound, ticks, failures, last_decision, eval_count, reply_decisions,
                   appended, created_len, reply_sent_at, fate, touched>>

ReactionNext == \E extend \in BOOLEAN, choice \in 1..ReactionMaxPool : ChooseReaction(extend, choice)

ReactionSpec == ReactionInit /\ [][ReactionNext]_vars

(***************************************************************************)
(* Properties of the decision rules (EngineSpec).                          *)
(***************************************************************************)
\* What the last should_respond call saw, recomputed from the window and the counters
\* it was given rather than read from the context the engine built.
Evaluated == last_decision.decision.action # "none"

SinceLastBot ==
    LET i == LastBotIndex(last_decision.window)
    IN IF i = 0 THEN INF ELSE last_decision.now - last_decision.window[i].timestamp

QuotaGiven ==
    IF last_decision.message_count = 0 THEN [num |-> 0, den |-> 1]
    ELSE [num |-> last_decision.reply_count, den |-> last_decision.message_count]

PlainMessage ==
    /\ Evaluated
    /\ ~last_decision.context.is_direct_mention
    /\ ~last_decision.context.is_reply_to_bot

\* C1: after any sequence of should_respond calls, with hourly resets anywhere in it,
\* 0 <= reply_count <= message_count, and the quota usage the lazy read returns (the
\* one the last call was given, and the one a read would return now) is in [0,1].
C1_CountersAndQuota ==
    /\ 0 <= decision_engine.reply_count
    /\ decision_engine.reply_count <= decision_engine.message_count
    /\ \A q \in {last_decision.context.current_quota_usage,
                 get_current_quota_usage(decision_engine, now).result} :
          q.den > 0 /\ 0 <= q.num /\ q.num <= q.den

\* A reset has happened, and replies and other outcomes have been counted after it.
C1_Witness ==
    /\ decision_engine.last_reset_time > 0
    /\ decision_engine.reply_count >= 1
    /\ decision_engine.message_count > decision_engine.reply_count

C4_QuotaIgnores ==
    (/\ PlainMessage
     /\ SinceLastBot >= last_decision.gap_min_seconds
     /\ RatioGeq(QuotaGiven, last_decision.reply_target_ratio)) =>
        /\ last_decision.decision.action = "ignore"
        /\ ~last_decision.decision.should_process
        /\ last_decision.decision.reasoning = "Quota exceeded"

\* The quota is used up by counted replies, the gap has elapsed and the topic is hot.
C4_Witness ==
    /\ PlainMessage
    /\ SinceLastBot >= last_decision.gap_min_seconds
    /\ last_decision.reply_count >= 1
    /\ RatioGeq(QuotaGiven, last_decision.reply_target_ratio)
    /\ RatioGeq(last_decision.context.topic_heat, last_decision.topic_heat_threshold)
    /\ last_decision.decision.action = "ignore"

\* The message the last should_respond call evaluated: the last of the window, where
\* add_message has put it.
EvaluatedMessage == last_decision.window[Len(last_decision.window)]

\* The evaluated message replies to a message that is among the last 20 of the
\* window and is flagged as the bot's.
RepliesToBot ==
    LET Among(recent) ==
            \E i \in 1..Len(recent) :
                /\ recent[i].message_id = EvaluatedMessage.reply_to_message_id
                /\ recent[i].is_bot_message
    IN /\ EvaluatedMessage.reply_to_message_id # 0
       /\ Among(LastN(last_decision.window, CONTEXT_LIMIT))

\* C25: a message that is no direct mention and replies to a bot message among the
\* last 20 of the window gets REPLY (0.9) when the time since the bot's last message
\* is at least gap_min_seconds and REACT (0.7) otherwise, should_process true in both
\* cases, whatever the quota usage and the topic heat.
C25_ReplyToBotDependsOnPacing ==
    (Evaluated /\ ~last_decision.context.is_direct_mention /\ RepliesToBot) =>
        /\ last_decision.decision.should_process
        /\ IF SinceLastBot >= last_decision.gap_min_seconds
           THEN /\ last_decision.decision.action = "reply"
                /\ last_decision.decision.confidence = 90
           ELSE /\ last_decision.decision.action = "react"
                /\ last_decision.decision.confidence = 70

\* A reply to the bot is answered with a REPLY although the quota is used up.
C25_Witness ==
    /\ Evaluated
    /\ ~last_decision.context.is_direct_mention
    /\ RepliesToBot
    /\ last_decision.decision.action = "reply"
    /\ last_decision.decision.confidence = 90
    /\ RatioGeq(QuotaGiven, last_decision.reply_target_ratio)

\* The heat of the last 20 messages of the window the last call was given.
HeatGiven ==
    calculate_topic_heat(LastN(last_decision.window, CONTEXT_LIMIT), last_decision.now)

\* The engine with the settings the last call was made under.
EngineGiven ==
    [decision_engine EXCEPT !.reply_target_ratio = last_decision.reply_target_ratio,
                            !.gap_min_seconds = last_decision.gap_min_seconds,
                            !.topic_heat_threshold = last_decision.topic_heat_threshold]

\* The values of random.random(), as hundredths.
DRAWS == 0..99

\* C26: a message that is neither a mention nor a reply to the bot, with the gap
\* elapsed, the quota usage below reply_target_ratio and the topic heat at least
\* topic_heat_threshold, gets REACT when the draw is below reaction_probability and
\* REPLY otherwise, never IGNORE, with confidence 0.6 and should_process true.
C26_HotTopicParticipates ==
    (/\ PlainMessage
     /\ SinceLastBot >= last_decision.gap_min_seconds
     /\ ~RatioGeq(QuotaGiven, last_decision.reply_target_ratio)
     /\ RatioGeq(HeatGiven, last_decision.topic_heat_threshold)) =>
        /\ last_decision.decision.action \in {"react", "reply"}
        /\ last_decision.decision.confidence = 60
        /\ last_decision.decision.should_process
        /\ \A draw \in DRAWS :
              apply_decision_rules(EngineGiven, last_decision.context, draw) =
                 IF draw < decision_engine.reaction_probability
                 THEN DecisionResult("react", 60, "Hot topic participation (react)", TRUE)
                 ELSE DecisionResult("reply", 60, "Hot topic participation (reply)", TRUE)

\* A hot topic has been answered with a reaction.
C26_Witness ==
    /\ PlainMessage
    /\ SinceLastBot >= last_decision.gap_min_seconds
    /\ ~RatioGeq(QuotaGiven, last_decision.reply_target_ratio)
    /\ RatioGeq(HeatGiven, last_decision.topic_heat_threshold)
    /\ last_decision.decision.action = "react"

\* C27: the result of should_respond has should_process true iff its action is REPLY
\* or REACT: every IGNORE (R3, R4, the default and R6 when its draw fails) has
\* should_process false, and no REPLY or REACT has.
C27_ProcessIffParticipates ==
    Evaluated =>
        /\ last_decision.decision.action \in ResponseAction
        /\ last_decision.decision.should_process
              = (last_decision.decision.action \in {"reply", "react"})
        /\ last_decision.decision.reasoning
              \in {"Rate limited", "Quota exceeded", "No compelling reason to respond"} =>
                 /\ last_decision.decision.action = "ignore"
                 /\ ~last_decision.decision.should_process

\* A REPLY by random participation, to be processed.
C27_Witness ==
    /\ Evaluated
    /\ last_decision.decision.reasoning = "Random participation"
    /\ last_decision.decision.action = "reply"
    /\ last_decision.decision.should_process

(***************************************************************************)
(* Properties of the webhook pipeline (Spec).                              *)
(***************************************************************************)
\* The invocations that hold a REPLY decision whose bot message is not yet stored.
ReplyInFlight(c) ==
    {h \in Handlers : /\ handlers[h].pc \in {"generate", "send_reply"}
                      /\ handlers[h].message.chat_id = c}

\* This step is a should_respond call.
EvaluationStep == last_decision'.context.message_id # last_decision.context.message_id

\* C5: in every chat, any two bot-authored messages recorded in the store have
\* timestamps at least gap_min_seconds apart.
C5_BotMessagesSpaced ==
    \A c \in Chats :
        LET w == WindowOf(message_store.chat_windows, c)
        IN \A i, j \in 1..Len(w) :
              (i < j /\ w[i].is_bot_message /\ w[j].is_bot_message) =>
                  w[j].timestamp - w[i].timestamp >= decision_engine.gap_min_seconds

\* C6: when the send of a decided REPLY succeeds, the chat's window ends with a new
\* bot message timestamped at send time; and every message of that chat that is
\* neither a mention nor a reply to the bot, evaluated less than gap_min_seconds
\* after that send, gets IGNORE with should_process false by rule R3.
C6_ReplyRecordedAndPaces ==
    [][/\ \A h \in Handlers :
            (handlers[h].pc = "send_reply" /\ handlers'[h].pc = "idle") =>
                LET w == WindowOf(message_store'.chat_windows, handlers[h].message.chat_id)
                IN /\ w # <<>>
                   /\ w[Len(w)].is_bot_message
                   /\ w[Len(w)].timestamp = now
       /\ (/\ EvaluationStep
           /\ ~last_decision'.context.is_direct_mention
           /\ ~last_decision'.context.is_reply_to_bot
           /\ reply_sent_at[last_decision'.context.chat_id] >= 0
           /\ now - reply_sent_at[last_decision'.context.chat_id]
                 < decision_engine.gap_min_seconds) =>
              /\ last_decision'.decision.action = "ignore"
              /\ ~last_decision'.decision.should_process
              /\ last_decision'.decision.reasoning = "Rate limited"]_vars

\* C7: a REPLY decision whose generation or send failed has not been counted in
\* reply_count (stated for the time before the first quota reset, when every counted
\* reply is one of the run's REPLY decisions).
C7_FailedReplyNotCounted ==
    decision_engine.last_reset_time = 0 =>
        decision_engine.reply_count
            <= Cardinality(fate.reply_decided \ (fate.gen_failed \cup fate.send_failed))

\* C8: a message with a REPLY decision whose generation call failed or was cancelled
\* has had a reaction sent for it by the time its invocation is over.
C8_FallbackReactionFires ==
    \A m \in fate.finished :
        m \in (fate.gen_failed \cup fate.cancelled) => m \in fate.reacted

\* C9: between a REPLY decision and the storing of its bot message no other message
\* of the same chat is evaluated, so no two invocations for one chat hold a REPLY
\* whose bot message is not yet stored.
C9_OneReplyAtATime ==
    /\ [](\A c \in Chats : Cardinality(ReplyInFlight(c)) <= 1)
    /\ [][EvaluationStep => ReplyInFlight(last_decision'.context.chat_id) = {}]_vars

\* C10: under any interleaving of the invocations, message_count is the number of
\* should_respond calls since the last reset, reply_count the number of REPLY
\* decisions since the last reset, and every window holds exactly the last messages
\* appended to it, in order, none lost and none twice.
C10_CountersAndWindowsExact ==
    /\ decision_engine.message_count = eval_count
    /\ decision_engine.reply_count = reply_decisions
    /\ \A c \in Chats :
          LET w == WindowOf(message_store.chat_windows, c)
              kept == IF HasChat(message_store.chat_windows, c)
                      THEN Min(created_len[c], message_store.window_size) ELSE 0
          IN /\ [i \in 1..Len(w) |-> w[i].message_id] = LastN(appended[c], kept)
             /\ \A i, j \in 1..Len(w) : i < j => w[i].message_id < w[j].message_id

\* Two invocations are suspended at once, both with a counted REPLY, and a full
\* window has dropped a message.
C10_Witness ==
    /\ \A h \in Handlers : handlers[h].pc \in {"generate", "send_reply"}
    /\ decision_engine.reply_count >= 2
    /\ \E c \in Chats : Len(appended[c]) > message_store.window_size

(***************************************************************************)
(* Properties of the engine and the command handler called directly        *)
(* (ControlSpec).                                                           *)
(***************************************************************************)
\* This step is a call of the operation op.
CallStep(op) == last_call'.seq # last_call.seq /\ last_call'.op = op

\* This step is a get_stats call, made directly or by /stats or /status.
StatsStep ==
    \/ CallStep("get_stats")
    \/ /\ CallStep("handle_command")
       /\ last_call'.string \in {<<"OlegBot", "Statistics">>, <<"Status">>}

ZERO == [num |-> 0, den |-> 1]

\* C11: a quota read made 3600 seconds or more after last_reset_time sets both
\* counters to 0, sets last_reset_time to now and returns 0.0; made earlier, it leaves
\* the counters and last_reset_time as they are.  (A should_respond call counts its
\* own message, and its REPLY, after the read.)
C11_QuotaReadResets ==
    [][/\ StatsStep =>
            IF now - decision_engine.last_reset_time >= RESET_INTERVAL
            THEN /\ decision_engine'.message_count = 0
                 /\ decision_engine'.reply_count = 0
                 /\ decision_engine'.last_reset_time = now
                 /\ CallStep("get_stats") => last_call'.stats.current_quota_usage = ZERO
            ELSE /\ decision_engine'.message_count = decision_engine.message_count
                 /\ decision_engine'.reply_count = decision_engine.reply_count
                 /\ decision_engine'.last_reset_time = decision_engine.last_reset_time
       /\ EvaluationStep =>
            LET replies == IF last_decision'.decision.action = "reply" THEN 1 ELSE 0
            IN IF now - decision_engine.last_reset_time >= RESET_INTERVAL
               THEN /\ decision_engine'.message_count = 1
                    /\ decision_engine'.reply_count = replies
                    /\ decision_engine'.last_reset_time = now
                    /\ last_decision'.context.current_quota_usage = ZERO
               ELSE /\ decision_engine'.message_count = decision_engine.message_count + 1
                    /\ decision_engine'.reply_count = decision_engine.reply_count + replies
                    /\ decision_engine'.last_reset_time = decision_engine.last_reset_time]_vars

\* get_stats has just reset counters that were not zero: the counts it reports were
\* read before the reset.
C11_Witness ==
    /\ last_call.op = "get_stats"
    /\ last_call.stats.message_count > 0
    /\ last_call.stats.reply_count > 0
    /\ last_call.stats.current_quota_usage = ZERO
    /\ decision_engine.message_count = 0
    /\ decision_engine.reply_count = 0
    /\ decision_engine.last_reset_time = now
    /\ now >= RESET_INTERVAL

\* C28: a should_respond call increments message_count by exactly 1, counted from
\* its value after the lazy reset check of the call, and reply_count by exactly 1 iff
\* the action it returns is REPLY; REACT and IGNORE leave reply_count as it is.
C28_CountsEveryEvaluation ==
    [][EvaluationStep =>
          LET Counted(lazy_reset) ==
                /\ decision_engine'.message_count
                      = (IF lazy_reset THEN 0 ELSE decision_engine.message_count) + 1
                /\ decision_engine'.reply_count
                      = (IF lazy_reset THEN 0 ELSE decision_engine.reply_count)
                          + (IF last_decision'.decision.action = "reply" THEN 1 ELSE 0)
                /\ last_decision'.decision.action \in {"react", "ignore"} =>
                      decision_engine'.reply_count
                         = (IF lazy_reset THEN 0 ELSE decision_engine.reply_count)
          IN Counted(now - decision_engine.last_reset_time >= decision_engine.reset_interval)]_vars

\* After a REPLY, a REACT has been counted as a message and not as a reply.
C28_Witness ==
    /\ Evaluated
    /\ last_decision.decision.action = "react"
    /\ decision_engine.message_count = 2
    /\ decision_engine.reply_count = 1

(***************************************************************************)
(* Properties of the store (StoreSpec).                                    *)
(***************************************************************************)
\* The last call was op, and the store is as that call left it.
Called(op) == last_call.op = op

MessageIds(messages) == [i \in 1..Len(messages) |-> messages[i].message_id]

\* How many of the add_message calls to chat c its window can still hold: those made
\* since the window was created, up to window_size.
Kept(c) ==
    IF HasChat(message_store.chat_windows, c)
    THEN Min(created_len[c], message_store.window_size) ELSE 0

\* C12: get_messages(chat_id) returns at most window_size messages: the
\* min(n, window_size) most recently inserted ones, oldest first, n being the number
\* of add_message calls to the chat (since its window was created).
C12_WindowBound ==
    (Called("get_messages") /\ last_call.arg = NONE) =>
        /\ Len(last_call.messages) <= message_store.window_size
        /\ MessageIds(last_call.messages) = LastN(appended[last_call.chat], Kept(last_call.chat))

\* More messages were added to the chat than its window holds, and get_messages
\* returned a full window.
C12_Witness ==
    /\ Called("get_messages")
    /\ last_call.arg = NONE
    /\ created_len[last_call.chat] > message_store.window_size
    /\ HasChat(message_store.chat_windows, last_call.chat)
    /\ Len(last_call.messages) = message_store.window_size

\* Of the chats in keys, the one whose last add_message or get_messages is the longest
\* ago.
LeastRecentlyTouched(keys, order) ==
    order[CHOOSE i \in 1..Len(order) :
            /\ order[i] \in keys
            /\ \A j \in 1..(i - 1) : order[j] \notin keys]

\* C13: the store never holds more than max_chats chats; an add_message for a chat
\* it does not hold, made when it holds max_chats chats, removes exactly the chat
\* least recently touched by add_message or get_messages, and any other add_message
\* removes no chat.
C13_LruEviction ==
    /\ [](get_chat_count(message_store) <= message_store.max_chats)
    /\ [][CallStep("add_message") =>
            LET keys == ChatKeys(message_store.chat_windows)
                c == last_call'.chat
            IN ChatKeys(message_store'.chat_windows) =
                  IF c \notin keys /\ Cardinality(keys) >= message_store.max_chats
                  THEN (keys \ {LeastRecentlyTouched(keys, touched)}) \cup {c}
                  ELSE keys \cup {c}]_vars

\* Chat 2 has just been evicted although chat 1 is older: chat 1, whose window still
\* holds the first message of the run, was touched after chat 2.
C13_Witness ==
    /\ Called("add_message")
    /\ last_call.removed = {2}
    /\ \E i \in 1..Len(WindowOf(message_store.chat_windows, 1)) :
          WindowOf(message_store.chat_windows, 1)[i].message_id = 1

\* C14: the chats that have a window are the chats that have a last-activity record.
C14_SameChats ==
    ChatKeys(message_store.chat_windows) = DOMAIN message_store.chat_last_activity

\* A chat has just been evicted for capacity, and the store holds max_chats chats.
C14_Witness ==
    /\ Called("add_message")
    /\ last_call.removed # {}
    /\ get_chat_count(message_store) = message_store.max_chats
    /\ Cardinality(DOMAIN message_store.chat_last_activity) = message_store.max_chats

C16_LimitTruncates ==
    Called("get_messages") =>
        LET w == WindowOf(message_store.chat_windows, last_call.chat)
        IN IF last_call.arg = NONE
           THEN last_call.messages = w
           ELSE /\ last_call.messages = LastN(w, last_call.arg)
                /\ Len(last_call.messages) <= last_call.arg

\* The texts of the messages of a list that have one, in order.
TextsOf(messages) ==
    LET with_text == SelectSeq(messages, LAMBDA m : m.text # <<>>)
    IN [i \in 1..Len(with_text) |-> with_text[i].text]

\* C17: get_recent_text(chat_id, limit) returns the texts of the limit most recent
\* messages that have a text, in arrival order, joined by single spaces: exactly
\* limit texts whenever the window holds at least limit messages with a text,
\* whatever text-less messages lie between them; the empty string for an unknown or
\* an empty chat.
C17_RecentTexts ==
    Called("get_recent_text") =>
        LET texts == TextsOf(WindowOf(message_store.chat_windows, last_call.chat))
        IN last_call.string = JoinTexts(LastN(texts, last_call.arg))

\* C18: has_recent_bot_message(chat_id, seconds) is true exactly when the chat's
\* window holds a bot message and the one nearest the end of the window is at most
\* seconds old, whatever other messages came after it and whatever bot messages
\* came before it.
C18_NearestBotMessage ==
    [][CallStep("has_recent_bot_message") =>
          LET w == WindowOf(message_store.chat_windows, last_call'.chat)
              bots == {i \in 1..Len(w) : w[i].is_bot_message}
          IN last_call'.found =
                (/\ bots # {}
                 /\ \A i \in bots :
                       (\A j \in bots : j <= i) => now - w[i].timestamp <= last_call'.arg)]_vars

\* The answer was yes for a window whose bot message is followed by another message.
C18_Witness ==
    /\ Called("has_recent_bot_message")
    /\ last_call.found
    /\ LET w == WindowOf(message_store.chat_windows, last_call.chat)
       IN /\ Len(w) >= 2
          /\ w[1].is_bot_message
          /\ ~w[Len(w)].is_bot_message

(***************************************************************************)
(* Properties of update_settings (SettingsSpec).                           *)
(***************************************************************************)
\* The configuration attributes of the engine.
RECOGNIZED_SETTINGS ==
    {"bot_username", "reply_target_ratio", "gap_min_seconds", "topic_heat_threshold",
     "reaction_probability"}

\* C19: update_settings changes only the recognized configuration attributes: a call
\* with any other key leaves the whole engine as it is, and no call changes
\* message_count, reply_count, last_reset_time or the reset interval.
C19_OnlyRecognizedSettings ==
    [][CallStep("update_settings") =>
          /\ last_call'.text[1] \notin RECOGNIZED_SETTINGS =>
                decision_engine' = decision_engine
          /\ decision_engine'.message_count = decision_engine.message_count
          /\ decision_engine'.reply_count = decision_engine.reply_count
          /\ decision_engine'.last_reset_time = decision_engine.last_reset_time
          /\ decision_engine'.reset_interval = decision_engine.reset_interval]_vars

(***************************************************************************)
(* Properties of the command surface (ControlSpec).                        *)
(***************************************************************************)
\* The arguments that are valid and in range: ratios of 0.0 to 1.0, gaps of 5 to 300.
VALID_QUOTA_ARGS == {"0", "0.5", "1.0"}
VALID_GAP_ARGS == {"5", "300"}

REJECTIONS ==
    {<<"Admin", "permissions", "required">>, <<"Invalid", "quota", "value">>,
     <<"Quota", "must", "be", "between">>, <<"Invalid", "gap", "value">>,
     <<"Gap", "must", "be", "between">>}

\* The call of this step is the command cmd with an argument, sent by an
\* administrator if admin is true and by another user if not.
CommandStep(cmd, admin) ==
    /\ CallStep("handle_command")
    /\ Len(last_call'.text) >= 2
    /\ Lower(last_call'.text[1]) = cmd
    /\ (last_call'.arg \in ADMIN_USER_IDS) = admin

\* C20: through the commands, reply_target_ratio stays within [0,1] and
\* gap_min_seconds within [5,300]; each changes only by its command, sent by an
\* administrator with a valid value in range; and a /setquota or /setgap with a value
\* out of range or unparsable, or from a user who is no administrator, is answered
\* with a rejection and changes neither.
C20_SettingsByAdminInRange ==
    /\ [](/\ decision_engine.reply_target_ratio \in 0..100
          /\ decision_engine.gap_min_seconds \in 5..300)
    /\ [][/\ decision_engine'.reply_target_ratio # decision_engine.reply_target_ratio =>
               /\ CommandStep("/setquota", TRUE)
               /\ last_call'.text[2] \in VALID_QUOTA_ARGS
          /\ decision_engine'.gap_min_seconds # decision_engine.gap_min_seconds =>
               /\ CommandStep("/setgap", TRUE)
               /\ last_call'.text[2] \in VALID_GAP_ARGS
          /\ (\/ CommandStep("/setquota", FALSE)
              \/ CommandStep("/setgap", FALSE)
              \/ CommandStep("/setquota", TRUE) /\ last_call'.text[2] \notin VALID_QUOTA_ARGS
              \/ CommandStep("/setgap", TRUE) /\ last_call'.text[2] \notin VALID_GAP_ARGS) =>
               /\ last_call'.string \in REJECTIONS
               /\ decision_engine'.reply_target_ratio = decision_engine.reply_target_ratio
               /\ decision_engine'.gap_min_seconds = decision_engine.gap_min_seconds]_vars

\* An administrator has set the gap to its upper limit, and the same command from
\* another user has then been rejected.
C20_Witness ==
    /\ Called("handle_command")
    /\ last_call.seq = 2
    /\ last_call.arg \notin ADMIN_USER_IDS
    /\ Lower(last_call.text[1]) = "/setgap"
    /\ last_call.string = <<"Admin", "permissions", "required">>
    /\ decision_engine.gap_min_seconds = 300

(***************************************************************************)
(* Properties of the tone analyzer (ToneSpec).                             *)
(***************************************************************************)
\* The positions of a text where a whitespace-delimited word starts.
WordStarts(text) ==
    {i \in 1..Len(text) :
        /\ text[i] \notin WHITESPACE
        /\ IF i = 1 THEN TRUE ELSE text[i - 1] \in WHITESPACE}

\* The messages of a batch that are not blank, by their positions.
NonBlankMessages(messages) ==
    {i \in 1..Len(messages) : \E k \in 1..Len(messages[i]) : messages[i][k] \notin WHITESPACE}

\* The number of words of a batch (a blank message has none).
TotalWords(messages) == Sum([i \in 1..Len(messages) |-> Cardinality(WordStarts(messages[i]))])

\* C23: analyze_tone returns formality_level "formal" iff the number of
\* whitespace-delimited words divided by the number of non-blank messages is strictly
\* greater than formal_length_threshold; at the threshold, below it and for a batch
\* with no non-blank message it returns "casual".
C23_FormalAboveThreshold ==
    Called("analyze_tone") =>
        last_call.hints.formality_level =
            IF /\ NonBlankMessages(last_call.batch) # {}
               /\ TotalWords(last_call.batch) * last_call.analyzer.formal_length_threshold.den
                     > last_call.analyzer.formal_length_threshold.num
                          * Cardinality(NonBlankMessages(last_call.batch))
            THEN "formal" ELSE "casual"

\* Two non-blank messages average exactly the threshold of 1.5 words, and the
\* result is casual.
C23_Witness ==
    /\ Called("analyze_tone")
    /\ last_call.analyzer.formal_length_threshold = [num |-> 3, den |-> 2]
    /\ Cardinality(NonBlankMessages(last_call.batch)) = 2
    /\ TotalWords(last_call.batch) = 3
    /\ last_call.hints.formality_level = "casual"

\* The emoji characters: the emoticons, the pictographs, the transport and map
\* symbols, the flags, the dingbats and the enclosed characters (the blocks Enclosed
\* Alphanumerics, Enclosed CJK Letters and Months, Enclosed Alphanumeric Supplement
\* and Enclosed Ideographic Supplement).
EMOJI_BLOCKS ==
    {<<128512, 128591>>, <<127744, 128511>>, <<128640, 128767>>, <<127456, 127487>>,
     <<9986, 10160>>, <<9312, 9471>>, <<12800, 13055>>, <<127232, 127487>>,
     <<127488, 127743>>}

IsEmoji(ch) == \E r \in EMOJI_BLOCKS : r[1] <= ch /\ ch <= r[2]

EmojiCount(messages) ==
    Sum([i \in 1..Len(messages) |->
            IF i \in NonBlankMessages(messages)
            THEN Cardinality({k \in 1..Len(messages[i]) : IsEmoji(messages[i][k])})
            ELSE 0])

CharCount(messages) ==
    Sum([i \in 1..Len(messages) |->
            IF i \in NonBlankMessages(messages) THEN Len(messages[i]) ELSE 0])

\* C24: analyze_tone returns has_high_emoji true iff the number of emoji characters
\* divided by the number of characters, over the non-blank messages, strictly exceeds
\* high_emoji_threshold (a ratio at the threshold gives false), and emoji_density is
\* within [0,1].
C24_HighEmojiAboveThreshold ==
    Called("analyze_tone") =>
        /\ last_call.hints.has_high_emoji =
              (/\ CharCount(last_call.batch) > 0
               /\ EmojiCount(last_call.batch) * last_call.analyzer.high_emoji_threshold.den
                     > last_call.analyzer.high_emoji_threshold.num * CharCount(last_call.batch))
        /\ last_call.hints.emoji_density.den > 0
        /\ 0 <= last_call.hints.emoji_density.num
        /\ last_call.hints.emoji_density.num <= last_call.hints.emoji_density.den

(***************************************************************************)
(* Properties of the responder (ResponderSpec).                            *)
(***************************************************************************)
\* The phrases of a language's list, with and without their emoji.
PhrasesOf(list) ==
    {list[i] : i \in 1..Len(list)}
        \cup {Replace(list[i], " " \o THINKING_FACE, "") : i \in 1..Len(list)}

\* The calls the backend fails before it answers, as far as the responder may try.
FailedCalls(backend) == Min(backend.errors, STOP_AFTER_ATTEMPT)

\* The answer has a text: a choice whose content is not empty.
HasText(response) == response.kind = "completion" /\ response.content # ""

\* str occurs in whole as a part of text.
PartOf(str, text) ==
    \E i \in 1..(Len(text) + 1) : \E j \in (i - 1)..Len(text) : SubSeq(text, i, j) = str

\* C22: generate_response calls the backend at most 3 times, stopping at the first
\* call that succeeds; it returns the text of that call, and a phrase of the
\* requested language's list (the English list when the language has none) when the
\* last attempt has failed or the call brought no text; so the response is never
\* empty, whatever the backend does.
C22_NeverEmptyResponse ==
    Called("generate_response") =>
        /\ last_call.attempts <= STOP_AFTER_ATTEMPT
        /\ last_call.attempts = Min(FailedCalls(last_call.backend) + 1, STOP_AFTER_ATTEMPT)
        /\ last_call.response # ""
        /\ IF /\ last_call.backend.errors < STOP_AFTER_ATTEMPT
              /\ HasText(last_call.backend.then)
           THEN PartOf(last_call.response, last_call.backend.then.content)
           ELSE last_call.response \in
                    PhrasesOf(IF last_call.language \in {"es", "ru", "fr"}
                              THEN FallbackResponses(last_call.language)
                              ELSE FALLBACK_EN)

(***************************************************************************)
(* Properties of should_respond called directly (DirectSpec).              *)
(***************************************************************************)
\* The reasons the rules after R1 and R2 give.
LATER_RULES ==
    {"Rate limited", "Quota exceeded", "Hot topic participation (react)",
     "Hot topic participation (reply)", "Random participation",
     "No compelling reason to respond"}

\* The message the last call was given replies to nothing, or to a message that is
\* not among the last 20 of the window.
NoReplyTarget ==
    LET Absent(recent) ==
            \A i \in 1..Len(recent) : recent[i].message_id # last_call.arg
    IN last_call.arg = 0 \/ Absent(LastN(last_decision.window, CONTEXT_LIMIT))

\* C29: should_respond returns a decision for a message whose text is None, for a
\* chat the store does not know and for a reply_to_message_id that is absent or
\* matches no recent message: a None text is no mention, a reply without a target
\* among the recent messages is no reply to the bot, an unknown chat has no bot
\* message and no heat, and evaluation falls through to the rules after R1 and R2.
C29_MissingInputsFallThrough ==
    Called("should_respond") =>
        /\ last_decision.decision.action \in ResponseAction
        /\ last_decision.context.chat_id = last_call.chat
        /\ last_call.text = TEXT_NONE => ~last_decision.context.is_direct_mention
        /\ NoReplyTarget => ~last_decision.context.is_reply_to_bot
        /\ last_decision.window = <<>> =>
              /\ ~last_decision.context.is_reply_to_bot
              /\ last_decision.context.time_since_last_bot_message = INF
              /\ last_decision.context.topic_heat.num = 0
        /\ (last_call.text = TEXT_NONE /\ NoReplyTarget) =>
              last_decision.decision.reasoning \in LATER_RULES

\* A message without text, replying to a message the store does not hold, in a chat
\* the store does not know, has been answered by random participation.
C29_Witness ==
    /\ Called("should_respond")
    /\ last_call.text = TEXT_NONE
    /\ last_call.arg = 1
    /\ last_decision.window = <<>>
    /\ last_decision.decision.reasoning = "Random participation"

(***************************************************************************)
(* Properties of the pipeline's dispatch (Spec).                           *)
(***************************************************************************)
\* An inbound message is taken in by this step.
InboundStep == inbound' = inbound + 1

\* A message of the bot is stored by this step.
BotStoredStep == next_message_id' # next_message_id /\ inbound' = inbound

\* The texts of the model that start with a command word.
CommandText(text) ==
    /\ text # TEXT_NONE
    /\ Lower(text[1]) \in {"/setquota", "/setquotas", "/setgap", "/stats", "/status",
                           "/help", "/helpme"}

\* C30: the pipeline hands a message to should_respond only if it is not a bot
\* message, has text and is no command.  A text-less message and a command never
\* increment message_count or reply_count, and the inbound message is all the same
\* appended to its chat's window; the bot's own messages are stored without being
\* evaluated.
C30_OnlyTextMessagesAreEvaluated ==
    [][/\ InboundStep =>
            \E c \in Chats :
                LET Taken(w) ==
                      /\ w # <<>>
                      /\ w[Len(w)].message_id = next_message_id
                      /\ w[Len(w)].chat_id = c
                      /\ ~w[Len(w)].is_bot_message
                      /\ EvaluationStep
                            = (w[Len(w)].text # TEXT_NONE /\ ~CommandText(w[Len(w)].text))
                      /\ ~EvaluationStep =>
                            /\ last_decision' = last_decision
                            /\ eval_count' <= eval_count
                            /\ decision_engine'.message_count <= decision_engine.message_count
                            /\ decision_engine'.reply_count <= decision_engine.reply_count
                IN Taken(WindowOf(message_store'.chat_windows, c))
       /\ BotStoredStep =>
            /\ ~EvaluationStep
            /\ decision_engine' = decision_engine]_vars

\* After an evaluated message, a text-less message and a command have been stored
\* and the engine has still counted one message.
C30_Witness ==
    /\ inbound = 3
    /\ decision_engine.message_count = 1
    /\ Len(WindowOf(message_store.chat_windows, 1)) = 2
    /\ WindowOf(message_store.chat_windows, 1)[1].text = TEXT_NONE
    /\ ~WindowOf(message_store.chat_windows, 1)[1].is_bot_message
    /\ WindowOf(message_store.chat_windows, 1)[2].text = TEXT_SETQUOTA_100

(***************************************************************************)
(* Properties of the webhook endpoint (WebhookSpec).                       *)
(***************************************************************************)
\* C21: when a webhook secret is configured, a request whose
\* X-Telegram-Bot-Api-Secret-Token header is missing or differs from it is answered
\* with 403 and has no effect: no message is stored, no counter changes, no
\* invocation starts and nothing is sent; a request with the right header, and any
\* request when no secret is configured, is not answered with 403.
C21_WrongSecretHasNoEffect ==
    [][CallStep("handle_telegram_webhook") =>
          IF /\ settings.telegram_webhook_secret # NO_SECRET
             /\ last_call'.header # settings.telegram_webhook_secret
          THEN /\ last_call'.status = HTTP_FORBIDDEN
               /\ UNCHANGED <<message_store, decision_engine, handlers, next_message_id,
                              inbound, last_decision, eval_count, reply_decisions,
                              appended, created_len, reply_sent_at, fate, touched,
                              settings, now>>
          ELSE last_call'.status # HTTP_FORBIDDEN]_vars

\* After a message has been taken in and counted, a request without the header has
\* been rejected.
C21_Witness ==
    /\ last_call.op = "handle_telegram_webhook"
    /\ last_call.status = HTTP_FORBIDDEN
    /\ last_call.header = MISSING_HEADER
    /\ settings.telegram_webhook_secret = "test_secret"
    /\ inbound > 0
    /\ decision_engine.message_count > 0

(***************************************************************************)
(* Properties of the store receiving messages without end (CleanupSpec).   *)
(***************************************************************************)
\* Chat c is in the store and has been idle for longer than cleanup_interval.
IdleChat(c) ==
    /\ HasChat(message_store.chat_windows, c)
    /\ c \in DOMAIN message_store.chat_last_activity
    /\ now - message_store.chat_last_activity[c] > message_store.cleanup_interval

\* C31: while add_message keeps being called for the other chats, the cleanup pass
\* runs again and again, so no chat stays in the store for ever once it has been
\* idle for longer than cleanup_interval: again and again it is either gone or no
\* longer idle.
C31_IdleChatsAreCleanedUp ==
    \A c \in Chats :
        ([]<><<\E d \in Chats \ {c} : KeepAdding(d)>>_vars) => []<>(~IdleChat(c))

(***************************************************************************)
(* Properties of the topic heat (HeatSpec).                                *)
(***************************************************************************)
RECURSIVE Gcd(_, _)
Gcd(a, b) == IF b = 0 THEN a ELSE Gcd(b, a % b)

\* Fractions a/b with a >= 0 and b > 0, in lowest terms, as records.
Frac(a, b) == [num |-> a \div Gcd(a, b), den |-> b \div Gcd(a, b)]

FracAdd(p, q) == Frac(p.num * q.den + q.num * p.den, p.den * q.den)

FracMul(p, q) == Frac(p.num * q.num, p.den * q.den)

FracLeq(p, q) == p.num * q.den <= q.num * p.den

FracMin(p, q) == IF FracLeq(p, q) THEN p ELSE q

FracEq(p, q) == p.num * q.den = q.num * p.den

\* The messages of a list that are at most five minutes old at time t.
ActiveAt(messages, t) ==
    SelectSeq(messages, LAMBDA m : t - m.timestamp <= ACTIVE_WINDOW_SECONDS)

\* The heat of n active messages by u users, r of them replies.
HeatOf(n, u, r) ==
    LET message_rate == Frac(n, 5)
        user_diversity_boost == FracMin(Frac(u, 3), Frac(1, 1))
        reply_boost == FracMin(Frac(r, n), Frac(1, 2))
        heat == FracAdd(FracAdd(FracMul(message_rate, Frac(4, 10)),
                                FracMul(user_diversity_boost, Frac(4, 10))),
                        FracMul(reply_boost, Frac(2, 10)))
    IN FracMin(FracMul(heat, Frac(1, 2)), Frac(1, 1))

\* C32: _calculate_topic_heat returns a value in [0,1]: 0 when the list has fewer than
\* 2 messages or none within the trailing 5 minutes, and otherwise, for n active
\* messages by u distinct users, r of them replies,
\* min((0.4*n/5 + 0.4*min(u/3, 1) + 0.2*min(r/n, 0.5)) / 2, 1).
C32_TopicHeatFormula ==
    last_call.op = "calculate_topic_heat" =>
        LET active == ActiveAt(last_call.messages, now)
            n == Len(active)
            u == Cardinality({active[i].user_id : i \in 1..n})
            r == Len(SelectSeq(active, LAMBDA m : m.reply_to_message_id # 0))
        IN /\ last_call.heat.den > 0
           /\ 0 <= last_call.heat.num
           /\ last_call.heat.num <= last_call.heat.den
           /\ IF Len(last_call.messages) < 2 \/ n = 0
              THEN last_call.heat.num = 0
              ELSE FracEq(last_call.heat, HeatOf(n, u, r))

\* A list with messages older than five minutes whose heat reaches the cap of 1.
C32_Witness ==
    /\ last_call.op = "calculate_topic_heat"
    /\ Len(ActiveAt(last_call.messages, now)) < Len(last_call.messages)
    /\ last_call.heat.num = last_call.heat.den

(***************************************************************************)
(* Properties of the choice of reaction (ReactSpec).                       *)
(***************************************************************************)
\* The evaluated message mentions the bot (the runs send TEXT_PLAIN and TEXT_MENTION).
MentionsBot == EvaluatedMessage.text = TEXT_MENTION

\* The invocations about to send the reaction to the message evaluated last.
Reacting ==
    {h \in Handlers : /\ handlers[h].pc = "react"
                      /\ handlers[h].message.message_id = last_decision.context.message_id}

\* C33: the rules are first-match.  A message that is both a direct mention and a
\* reply to a bot message is decided by R1 alone: confidence 0.95 (REPLY) or 0.8
\* (REACT), a reasoning that begins with 'Direct mention', and for the REACT the
\* reaction of a mention.  The reaction of a reply to the bot is taken only for the
\* REACT of R2 (no mention), and the REACT of a hot topic takes the generic
\* choose_reaction.
C33_FirstMatchPicksTheReaction ==
    Evaluated =>
        /\ (MentionsBot /\ RepliesToBot) =>
              /\ startswith(last_decision.decision.reasoning, "Direct mention")
              /\ IF SinceLastBot >= last_decision.gap_min_seconds
                 THEN /\ last_decision.decision.action = "reply"
                      /\ last_decision.decision.confidence = 95
                 ELSE /\ last_decision.decision.action = "react"
                      /\ last_decision.decision.confidence = 80
              /\ \A h \in Reacting : handlers[h].reaction = "get_reaction_for_mention"
        /\ \A h \in Reacting :
              /\ last_decision.decision.action = "react"
              /\ handlers[h].reaction = "get_reaction_for_reply" <=>
                    (/\ ~MentionsBot
                     /\ RepliesToBot
                     /\ last_decision.decision.confidence = 70)
              /\ handlers[h].reaction = "choose_reaction" <=>
                    (/\ ~MentionsBot
                     /\ ~RepliesToBot
                     /\ last_decision.decision.confidence = 60
                     /\ RatioGeq(HeatGiven, last_decision.topic_heat_threshold))

\* A rate-limited mention that replies to the bot's message is about to get the
\* reaction of a mention, while a hot topic is about to get a generic one.
C33_Witness ==
    \E h, g \in Handlers :
        /\ handlers[h].pc = "react"
        /\ handlers[h].message.text = TEXT_MENTION
        /\ handlers[h].message.reply_to_message_id # 0
        /\ handlers[h].reaction = "get_reaction_for_mention"
        /\ handlers[g].pc = "react"
        /\ handlers[g].reaction = "choose_reaction"
        /\ g \in Reacting

(***************************************************************************)
(* Properties of the reaction handler (ReactionSpec).                      *)
(***************************************************************************)
\* The rock-hand, fire, hundred, joy and rofl emoji.
OVERLY_CASUAL == {"<U+1F918>", "<U+1F525>", "<U+1F4AF>", "<U+1F602>", "<U+1F923>"}

\* C34: for formal tone hints the pool _adjust_for_tone returns holds none of the five
\* overly casual reactions, whatever the base pool and has_high_emoji, so
\* choose_reaction picks none of them for a formal conversation in a language
\* without reactions of its own.
C34_FormalPoolHasNoCasualReaction ==
    (/\ last_call.op = "choose_reaction"
     /\ last_call.hints.formality_level = "formal") =>
        /\ \A i \in 1..Len(last_call.pool) : last_call.pool[i] \notin OVERLY_CASUAL
        /\ last_call.language \notin REACTION_LANGUAGES =>
              last_call.reaction \notin OVERLY_CASUAL

(***************************************************************************)
(* Pacing of the replies (EngineSpec).                                     *)
(***************************************************************************)
\* The places of the bot's messages in the window the last call was given.
BotPlaces == {i \in 1..Len(last_decision.window) : last_decision.window[i].is_bot_message}

\* The seconds between the bot's message at place i and the last call.
AgeAt(i) == last_decision.now - last_decision.window[i].timestamp

\* C35: no rule returns REPLY inside the pacing gap: whenever should_respond returns
\* REPLY (by R1, R2, R5 or R6), the time since the most recent bot message in the
\* chat's window is at least gap_min_seconds, or the window holds no bot message
\* from the last hour.
C35_NoReplyInsideTheGap ==
    (Evaluated /\ last_decision.decision.action = "reply") =>
        \/ \A i \in BotPlaces : AgeAt(i) > RECENT_BOT_SECONDS
        \/ \A i \in BotPlaces : AgeAt(i) >= last_decision.gap_min_seconds

\* A REPLY exactly gap_min_seconds after the bot's last message.
C35_Witness ==
    /\ Evaluated
    /\ last_decision.decision.action = "reply"
    /\ \E i \in BotPlaces : AgeAt(i) = last_decision.gap_min_seconds

(***************************************************************************)
(* The quota bounds unsolicited participation (QuotaSpec).                 *)
(***************************************************************************)
\* C36: with reply_target_ratio fixed at r and no reset, in any sequence of
\* should_respond calls in which no message is a direct mention or a reply to a bot
\* message, reply_count <= r * message_count + 1 after every call (the counters of
\* the engine, and the calls and REPLY decisions counted by the run).
C36_QuotaBoundsParticipation ==
    decision_engine.last_reset_time = 0 =>
        /\ 100 * decision_engine.reply_count
              <= decision_engine.reply_target_ratio * decision_engine.message_count + 100
        /\ 100 * reply_decisions <= decision_engine.reply_target_ratio * eval_count + 100

\* A second unsolicited REPLY, once the usage has fallen below the ratio again.
C36_Witness ==
    /\ decision_engine.last_reset_time = 0
    /\ last_decision.decision.action = "reply"
    /\ decision_engine.reply_count = 2
    /\ decision_engine.message_count >= 4
    /\ reply_decisions = 2

(***************************************************************************)
(* Pacing is per chat (PacingSpec).                                        *)
(***************************************************************************)
\* The store with the window of chat c replaced by w.
WithWindow(S, c, w) ==
    [S EXCEPT !.chat_windows =
        [i \in 1..Len(S.chat_windows) |->
            IF S.chat_windows[i].chat_id = c
            THEN [S.chat_windows[i] EXCEPT !.messages = w]
            ELSE S.chat_windows[i]]]

\* The window w with the bot's messages taken for a user's.
Unflagged(w) == [i \in 1..Len(w) |-> [w[i] EXCEPT !.is_bot_message = FALSE]]

\* The time since the bot's last message, from the window the last call was given.
SinceLastBotInWindow ==
    IF \A i \in BotPlaces : AgeAt(i) > RECENT_BOT_SECONDS THEN INF
    ELSE CHOOSE a \in {AgeAt(i) : i \in BotPlaces} : \A i \in BotPlaces : a <= AgeAt(i)

\* The reading of the pacing gap: REPLY or REACT of R1 and R2, IGNORE or not of R3.
RateLimited(S, c) ==
    time_since_last_bot_message(S, c, now).result < decision_engine.gap_min_seconds

\* C37: pacing is per chat: the time since the last bot message used for a message of
\* chat B is computed from the window of B only, and two stores that differ only in
\* the bot messages of another chat A (A's bot messages taken for a user's, or A
\* absent) give the same time and the same rate-limited outcome for B.
C37_PacingIsPerChat ==
    /\ Evaluated =>
          last_decision.context.time_since_last_bot_message = SinceLastBotInWindow
    /\ \A a, b \in ChatKeys(message_store.chat_windows) :
          a # b =>
            \A S \in {WithWindow(message_store, a,
                                  Unflagged(WindowOf(message_store.chat_windows, a))),
                       clear_chat(message_store, a)} :
                /\ time_since_last_bot_message(S, b, now).result
                      = time_since_last_bot_message(message_store, b, now).result
                /\ RateLimited(S, b) = RateLimited(message_store, b)

\* A message of one chat has been evaluated as not rate-limited while the bot's
\* message in the other chat is younger than gap_min_seconds.
C37_Witness ==
    /\ Evaluated
    /\ last_decision.now = now
    /\ last_decision.context.time_since_last_bot_message >= last_decision.gap_min_seconds
    /\ last_decision.decision.action = "reply"
    /\ \E a \in ChatKeys(message_store.chat_windows) :
          /\ a # last_decision.context.chat_id
          /\ RateLimited(message_store, a)

(***************************************************************************)
(* The snapshot of get_stats (ControlSpec).                                *)
(***************************************************************************)
\* C38: get_stats returns a consistent snapshot: the reported current_quota_usage is
\* the reported reply_count / the reported message_count (0 when the reported
\* message_count is 0), also when the call makes the lazy hourly reset.
C38_StatsAreConsistent ==
    last_call.op = "get_stats" =>
        IF last_call.stats.message_count = 0
        THEN last_call.stats.current_quota_usage.num = 0
        ELSE last_call.stats.current_quota_usage.num * last_call.stats.message_count
               = last_call.stats.reply_count * last_call.stats.current_quota_usage.den

(***************************************************************************)
(* The answer to an update (AnswerSpec).                                   *)
(***************************************************************************)
\* C39: once an update has passed the secret check and been parsed,
\* handle_telegram_webhook answers {"status": "ok"} whatever fails in processing:
\* failures of the store, the engine, the backend or the Telegram sends are caught in
\* process_update, process_message and process_bot_logic and no answer has an error
\* status.  (An invocation that is cancelled gives no answer at all.)
C39_ProcessingFailuresAnswerOk ==
    /\ \A a \in fate.answers : a[2] = HTTP_OK
    /\ \A m \in fate.finished \ fate.cancelled : <<m, HTTP_OK>> \in fate.answers

\* An update whose message the store failed to take has been answered with ok.
C39_Witness ==
    \E m \in fate.finished :
        /\ <<m, HTTP_OK>> \in fate.answers
        /\ \A c \in Chats : \A i \in 1..Len(appended[c]) : appended[c][i] # m

(***************************************************************************)
(* The store's operations and the other chats (StoreSpec).                 *)
(***************************************************************************)
\* The window of chat B after the step is the one before it, or B is gone.
LeftWhole(B) ==
    HasChat(message_store'.chat_windows, B) =>
        /\ HasChat(message_store.chat_windows, B)
        /\ WindowOf(message_store'.chat_windows, B) = WindowOf(message_store.chat_windows, B)

\* This step is a call of one of the store's reading operations.
ReadStep ==
    \/ CallStep("get_messages")
    \/ CallStep("get_recent_text")
    \/ CallStep("has_recent_bot_message")

\* C40: a store operation on one chat never partially modifies another chat: after
\* add_message or get_messages for chat A the window of every other chat B holds the
\* same messages in the same order or is removed as a whole; get_messages,
\* get_recent_text and has_recent_bot_message never create or remove a chat, and for
\* an unknown chat they leave the store unchanged.
C40_OtherChatsAreLeftWhole ==
    [][/\ (CallStep("add_message") \/ CallStep("get_messages")) =>
             \A B \in StoreChats \ {last_call'.chat} : LeftWhole(B)
       /\ ReadStep =>
             /\ ChatKeys(message_store'.chat_windows) = ChatKeys(message_store.chat_windows)
             /\ ~HasChat(message_store.chat_windows, last_call'.chat) =>
                    message_store' = message_store]_vars

\* add_message for one chat has evicted a chat while a third chat keeps its messages.
C40_Witness ==
    /\ last_call.op = "add_message"
    /\ last_call.removed # {}
    /\ \E B \in StoreChats \ ({last_call.chat} \cup last_call.removed) :
          WindowOf(message_store.chat_windows, B) # <<>>

====
